---------------------------- MODULE Spec2Model ----------------------------
(***************************************************************************)
(* La Nation live-stream processor: the acquisition chain of               *)
(* EnhancedYouTubeStream (enhanced_youtube_stream.py) and the timed loop   *)
(* of YouTubeLiveProcessor (main.py), with its signal-driven shutdown.     *)
(*                                                                         *)
(* Two specifications share the state:                                     *)
(*   SpecStream  an EnhancedYouTubeStream object driven through its public *)
(*               methods by an arbitrary caller;                           *)
(*   Spec        one run of YouTubeLiveProcessor.start(), which owns such  *)
(*               a stream, with SIGINT/SIGTERM delivered at any point.     *)
(* FairSpec is Spec with the fairness of the single main thread.           *)
(***************************************************************************)
EXTENDS Integers, Sequences, FiniteSets, TLC

(***************************************************************************)
(* Bounds of the model.                                                    *)
(***************************************************************************)
\* capture handles (cv2.VideoCapture objects) the caller may open
MaxHandles == 2
\* longest formats list / streams dict an external tool returns
MaxListLen == 2
\* chunks _save_transcript_chunk may record in one run
MaxChunks == 2
\* time.time() when the run starts, in seconds
StartTime == 100
\* seconds of wall-clock time a behaviour may cover
MaxElapsed == 40
\* consecutive failed extractions counted (the count saturates here)
MaxFailures == 2
\* signals delivered in one run
MaxSignals == 2
\* threads capture_async starts on one ScreenshotCapturer
MaxThreads == 2
\* seconds that pass on the capturer's clock
MaxTicks == 3
\* analyze_image calls made on one VisionAnalyzer
MaxAnalyses == 3
\* extract_audio calls the stream's caller makes
MaxExtracts == 3
\* context_window of the PhraseDetector (chunks kept in the window)
ContextWindow == 2
\* process_transcript calls made on one PhraseDetector
MaxCalls == 3
\* _transcribe_audio_file calls made on one LiveTranscriber
MaxTranscriptions == 3
\* get_video_info calls made on one YouTubeAPIHandler
MaxRequests == 2

(***************************************************************************)
(* Python's None for string-valued fields, and for the capture handle.     *)
(***************************************************************************)
None == "None"

NoCap == 0

(***************************************************************************)
(* External data: what yt-dlp, streamlink and the HTTP fetch can answer.   *)
(***************************************************************************)
\* entries of info['formats'] as yt-dlp reports them
Formats ==
    { [name |-> "audio64",  vcodec |-> "none", acodec |-> "mp4a", abr |-> 64,  height |-> 0,   url |-> "url_audio64"],
      [name |-> "audio128", vcodec |-> "none", acodec |-> "mp4a", abr |-> 128, height |-> 0,   url |-> "url_audio128"],
      [name |-> "video360", vcodec |-> "avc1", acodec |-> "mp4a", abr |-> 96,  height |-> 360, url |-> "url_video360"],
      [name |-> "video720", vcodec |-> "avc1", acodec |-> "mp4a", abr |-> 128, height |-> 720, url |-> "url_video720"],
      [name |-> "storyboard", vcodec |-> "none", acodec |-> "none", abr |-> 0, height |-> 0,   url |-> None] }

\* sequences over S of length at most n
SeqUpTo(S, n) == UNION { [1..k -> S] : k \in 0..n }

\* sequences without a repeated element (the keys of a dict, in order)
Distinct(q) == \A i, j \in 1..Len(q) : q[i] = q[j] => i = j

\* what ydl.extract_info(url, download=False) does: raise, or return info
YtdlpAnswers ==
    { [raises |-> TRUE, is_live |-> FALSE, title |-> None, formats |-> <<>>] }
    \cup { [raises |-> FALSE, is_live |-> l, title |-> t, formats |-> fs] :
             l \in BOOLEAN, t \in {"yt title"},
             fs \in { q \in SeqUpTo(Formats, MaxListLen) : Distinct(q) } }

Qualities == {"720p", "360p", "best", "worst"}

\* what `streamlink --json url` does: raise (not installed, timeout, bad
\* JSON), exit non-zero, or print metadata and the streams dict
StreamlinkAnswers ==
    { [raises |-> TRUE,  returncode |-> 1, title |-> None, streams |-> <<>>],
      [raises |-> FALSE, returncode |-> 1, title |-> None, streams |-> <<>>] }
    \cup { [raises |-> FALSE, returncode |-> 0, title |-> t, streams |-> qs] :
             t \in {"sl title"},
             qs \in { q \in SeqUpTo(Qualities, MaxListLen) : Distinct(q) } }

\* what requests.get(url) does: raise, or answer with a status and a page
DirectAnswers ==
    { [raises |-> TRUE, status_code |-> 0, videoDetails |-> FALSE,
       title |-> None, isLive |-> FALSE] }
    \cup { [raises |-> FALSE, status_code |-> c, videoDetails |-> v,
            title |-> t, isLive |-> l] :
             c \in {200, 404}, v \in BOOLEAN,
             t \in {"page title"}, l \in BOOLEAN }

(***************************************************************************)
(* State.                                                                  *)
(***************************************************************************)
VARIABLES
    stream,        \* the EnhancedYouTubeStream object: its fields
    opened,        \* capture handles opened so far (handle k is the k-th)
    releases,      \* releases[h]: times cap.release() ran on handle h
    invoked,       \* the strategies setup() has invoked, in order
    setup_result,  \* what EnhancedYouTubeStream.setup() returned
    last_call,     \* the latest call of a method of the stream, and its result
    failures,      \* consecutive extract_audio calls of the stream's caller
                   \* that returned None (SpecStream)
    pc,            \* where the caller (or the main thread) is
    \* YouTubeLiveProcessor
    stop_event,            \* threading.Event: set or not
    transcript_counter,
    full_transcript,       \* the chunks appended so far, in order
    last_extraction_time,
    current_time,          \* local of start(): time.time() read at the tick
    transcript_chunk,      \* local of start(): what transcription returned
    start_result,          \* what start() returned
    \* the files of the run
    segment_files,         \* numbers of the segment_NNN files written
    full_transcript_file,  \* transcripts/full_transcript.txt
    final_transcript_file, \* final_transcript.txt
    console,               \* the totals print() wrote to the terminal, in order
    \* environment and bookkeeping
    now,           \* time.time(), in seconds
    handler,       \* the signal handlers running, innermost last
    signals,       \* signals delivered so far
    in_flight,     \* cycles begun and not yet finished
    stop_bodies    \* times the body of stop() ran

streamVars ==
    <<stream, opened, releases, invoked, setup_result, last_call, failures>>

processorVars ==
    <<stop_event, transcript_counter, full_transcript, last_extraction_time,
      current_time, transcript_chunk, start_result>>

fileVars ==
    <<segment_files, full_transcript_file, final_transcript_file, console>>

envVars == <<now, handler, signals, in_flight, stop_bodies>>

\* the processor's run: the stream it owns, the loop, the files, the signals
runVars == <<streamVars, pc, processorVars, fileVars, envVars>>

VARIABLES
    \* the directory temp_audio_extraction
    temp_audio,    \* the payload files in it, each named by the extract_audio
                   \* call that captured it
    extract_log,   \* extract_audio calls made, and the file the latest returned
    \* PhraseDetector
    detector,      \* its fields: target_phrases, transcript_history,
                   \* detected_phrases
    detector_log,  \* what was passed to and returned by process_transcript
    probe,         \* one call of _detect_phrase: its arguments and its result
    \* ScreenshotCapturer
    capturer,      \* its fields: last_capture_time
    capture_threads, \* the threads capture_async started: position and locals
    saved_frames,  \* the times of the captures that saved a frame
    clock,         \* time.time() of the capturer's process, in seconds
    \* VisionAnalyzer
    analyzer,      \* its fields: analysis_history
    analyzer_log   \* analyze_image calls made, and what the latest returned

collaboratorVars ==
    <<detector, detector_log, probe, capturer, capture_threads, saved_frames,
      clock, analyzer, analyzer_log>>

VARIABLES
    \* LiveTranscriber
    transcriber,     \* its configuration: use_deepgram, and whether the
                     \* Deepgram SDK was loaded (DEEPGRAM_SDK_AVAILABLE)
    transcribe_log,  \* _transcribe_audio_file calls made; the services the
                     \* latest one called, what they answered, what it returned
    \* YouTubeAPIHandler
    api_handler,     \* its fields: youtube_service
    api_log          \* get_video_info calls made; the strategies the latest
                     \* one invoked and what it returned

serviceVars == <<transcriber, transcribe_log, api_handler, api_log>>

componentVars == <<temp_audio, extract_log, collaboratorVars, serviceVars>>

vars == <<runVars, componentVars>>

Strategies == <<"yt-dlp", "streamlink", "direct_extraction">>

\* EnhancedYouTubeStream.__init__
NewStream ==
    [ stream_url |-> None, cap |-> NoCap, audio_file |-> None,
      is_live |-> FALSE, title |-> "", format_info |-> None,
      stream_quality |-> None, successful_strategy |-> None ]

NoCall == [op |-> None, method |-> None, result |-> None]

\* the record of a call: which method, which strategy's helper it reached
\* (None when it reached none), and what it returned
Call(op, method, result) == [op |-> op, method |-> method, result |-> result]

(***************************************************************************)
(* The three acquisition strategies, as functions of the object and of     *)
(* what the external tool answers: the object afterwards and the strategy's*)
(* return value.                                                           *)
(***************************************************************************)
IsAudioOnly(f) == f.vcodec = "none" /\ f.acodec # "none"

HasHeight(f) == f.height > 0

\* max(audio_formats, key=lambda x: x.get('abr', 0)): the first entry of
\* the highest abr
MaxAbr(q) ==
    q[CHOOSE i \in 1..Len(q) :
        /\ \A j \in 1..Len(q) : q[j].abr <= q[i].abr
        /\ \A j \in 1..(i - 1) : q[j].abr < q[i].abr]

\* min(video_formats, key=lambda x: x.get('height', 999)): the first entry
\* of the lowest height
MinHeight(q) ==
    q[CHOOSE i \in 1..Len(q) :
        /\ \A j \in 1..Len(q) : q[j].height >= q[i].height
        /\ \A j \in 1..(i - 1) : q[j].height > q[i].height]

\* a selection that takes the first format also for a live source
best_format_FirstFormat(formats, is_live) == formats[1]

\* the format _setup_with_ytdlp picks from a non-empty formats list
best_format(formats, is_live) ==
    IF is_live
    THEN LET audio_formats == SelectSeq(formats, IsAudioOnly)
             video_formats == SelectSeq(formats, HasHeight)
         IN IF audio_formats # <<>> THEN MaxAbr(audio_formats)
            ELSE IF video_formats # <<>> THEN MinHeight(video_formats)
            ELSE formats[1]
    ELSE formats[1]

setup_with_ytdlp(s, a) ==
    IF a.raises THEN [stream |-> s, ok |-> FALSE]
    ELSE LET s1 == [s EXCEPT !.is_live = a.is_live,
                             !.title = IF a.title = None THEN "Unknown Video"
                                       ELSE a.title]
         IN IF a.formats = <<>> THEN [stream |-> s1, ok |-> FALSE]
            ELSE LET best == best_format(a.formats, a.is_live)
                 IN [stream |-> [s1 EXCEPT !.stream_url = best.url,
                                           !.format_info = best.name],
                     ok |-> TRUE]

preferred_qualities == <<"720p", "480p", "360p", "best">>

InSeq(x, q) == \E i \in 1..Len(q) : q[i] = x

\* the quality _setup_with_streamlink picks from a non-empty streams dict
selected_quality(streams) ==
    LET hits == SelectSeq(preferred_qualities, LAMBDA x : InSeq(x, streams))
    IN IF hits # <<>> THEN hits[1] ELSE streams[1]

setup_with_streamlink(s, a) ==
    IF a.raises \/ a.returncode # 0 THEN [stream |-> s, ok |-> FALSE]
    ELSE LET s1 == [s EXCEPT !.is_live = TRUE,
                             !.title = IF a.title = None THEN "Live Stream"
                                       ELSE a.title]
         IN IF a.streams = <<>> THEN [stream |-> s1, ok |-> FALSE]
            ELSE [stream |-> [s1 EXCEPT !.stream_quality =
                                            selected_quality(a.streams)],
                  ok |-> TRUE]

setup_with_direct_extraction(s, a) ==
    IF a.raises \/ a.status_code # 200 \/ ~a.videoDetails
    THEN [stream |-> s, ok |-> FALSE]
    ELSE [stream |-> [s EXCEPT !.title = IF a.title = None THEN @ ELSE a.title,
                               !.is_live = a.isLive],
          ok |-> TRUE]

(***************************************************************************)
(* The methods the main processor uses after setup(), as functions of the  *)
(* object and of what the external call does.                              *)
(***************************************************************************)
\* what _extract_audio_ytdlp / _extract_audio_streamlink can return: the
\* path of a file, or None (nothing found, or an exception caught inside)
AudioResults == {None, "audio.mp3"}

\* extract_audio: the helper it dispatches to (None: no helper, returns None
\* at once) and the value returned
extract_audio(s, r) ==
    IF s.successful_strategy = "yt-dlp" /\ s.stream_url # None
    THEN [method |-> "yt-dlp", result |-> r]
    ELSE IF s.successful_strategy = "streamlink"
    THEN [method |-> "streamlink", result |-> r]
    ELSE [method |-> None, result |-> None]

download_audio(s, r) ==
    IF s.successful_strategy = "yt-dlp" /\ s.stream_url # None
    THEN [method |-> "yt-dlp", result |-> r]
    ELSE IF s.successful_strategy = "streamlink" /\ s.stream_quality # None
    THEN [method |-> "streamlink", result |-> r]
    ELSE [method |-> None, result |-> None]

\* no file: the helper returns None
NoFileFound == 0

\* what ydl.download does in _extract_audio_ytdlp: raise; return without a new
\* .mp3; write a .mp3 under a new name; write it over a .mp3 already there
DownloadAnswers == {"raises", "nothing", "new_file", "same_name"}

\* _extract_audio_ytdlp as call number k on the directory dir: the directory
\* afterwards and the file returned, the first .mp3 of the video that
\* os.listdir yields (pick: where that listing starts, its order being
\* arbitrary)
extract_audio_ytdlp(dir, k, a, pick) ==
    IF a = "raises" THEN [dir |-> dir, file |-> NoFileFound]
    ELSE LET after == CASE a = "nothing" -> dir
                        [] a = "new_file" -> dir \cup {k}
                        [] a = "same_name" ->
                             IF dir = {} THEN {k}
                             ELSE (dir \ {CHOOSE f \in dir : \A g \in dir : g <= f})
                                      \cup {k}
         IN [dir |-> after,
             file |-> IF after = {} THEN NoFileFound
                      ELSE IF pick \in after THEN pick
                      ELSE CHOOSE f \in after : \A g \in after : f <= g]

\* what the `streamlink --output file --force` run does in
\* _extract_audio_streamlink: whether it wrote the file, and how it ended
\* (returned with any exit code, hit the timeout, raised something else)
CaptureRuns ==
    { [writes |-> w, ends |-> e] :
        w \in BOOLEAN, e \in {"returns", "timeout", "raises"} }

\* _extract_audio_streamlink as call number k: the one file <video_id>_stream.mp4
\* is overwritten when the run writes, and returned when it exists
extract_audio_streamlink(dir, k, c) ==
    LET after == IF c.writes THEN {k} ELSE dir
    IN [dir |-> after,
        file |-> IF c.ends = "raises" \/ after = {} THEN NoFileFound
                 ELSE CHOOSE f \in after : TRUE]

\* what opening the capture can do: cv2.VideoCapture(...) may raise, the
\* `streamlink --stream-url` call may exit non-zero, isOpened() may be False
CaptureAnswers ==
    { [raises |-> r, returncode |-> c, isOpened |-> o] :
        r \in BOOLEAN, c \in {0, 1}, o \in BOOLEAN }

\* start_video_capture with h the handle a successful open would create:
\* the object afterwards and the handle returned (NoCap for None)
start_video_capture(s, a, h) ==
    IF s.successful_strategy = "yt-dlp" /\ s.stream_url # None
    THEN IF ~a.raises /\ a.isOpened
         THEN [stream |-> [s EXCEPT !.cap = h], method |-> "yt-dlp", cap |-> h]
         ELSE [stream |-> s, method |-> "yt-dlp", cap |-> NoCap]
    ELSE IF s.successful_strategy = "streamlink"
    THEN IF ~a.raises /\ a.returncode = 0 /\ a.isOpened
         THEN [stream |-> [s EXCEPT !.cap = h], method |-> "streamlink", cap |-> h]
         ELSE [stream |-> s, method |-> "streamlink", cap |-> NoCap]
    ELSE [stream |-> s, method |-> None, cap |-> NoCap]

\* stop_video_capture without `self.cap = None`
stop_video_capture_KeepsCap(s, rel) ==
    IF s.cap # NoCap
    THEN [stream |-> s, releases |-> [rel EXCEPT ![s.cap] = @ + 1]]
    ELSE [stream |-> s, releases |-> rel]

\* stop_video_capture: cap.release() on the handle held, then cap = None
stop_video_capture(s, rel) ==
    IF s.cap # NoCap
    THEN [stream |-> [s EXCEPT !.cap = NoCap],
          releases |-> [rel EXCEPT ![s.cap] = @ + 1]]
    ELSE [stream |-> s, releases |-> rel]

\* release that also forgets the strategy setup() pinned
release_ForgetsStrategy(s, rel) ==
    LET r == stop_video_capture(s, rel)
    IN [stream |-> [r.stream EXCEPT !.successful_strategy = None,
                                    !.stream_url = None,
                                    !.stream_quality = None],
        releases |-> r.releases]

\* release: stop_video_capture, then the removal of self.audio_file, which
\* no method ever assigns: the object and the handles are left as
\* stop_video_capture left them
release(s, rel) == stop_video_capture(s, rel)

(***************************************************************************)
(* EnhancedYouTubeStream.setup(): the chain, one step per strategy.        *)
(***************************************************************************)
Min(a, b) == IF a < b THEN a ELSE b

\* no signal handler is running: the interrupted code may go on
Uninterrupted == handler = <<>>

\* setup() without the `return True` after a successful yt-dlp strategy
SetupYtdlp_FallsThrough ==
    /\ pc = "setup_ytdlp"
    /\ handler = <<>>
    /\ \E a \in YtdlpAnswers :
         LET r == setup_with_ytdlp(stream, a)
         IN /\ invoked' = Append(invoked, [name |-> "yt-dlp", ok |-> r.ok])
            /\ stream' = IF r.ok
                         THEN [r.stream EXCEPT !.successful_strategy = "yt-dlp"]
                         ELSE r.stream
    /\ pc' = "setup_streamlink"
    /\ UNCHANGED <<opened, releases, setup_result, last_call, failures>>
    /\ UNCHANGED <<processorVars, fileVars, envVars>>
    /\ UNCHANGED componentVars

\* setup() calls _setup_with_ytdlp first
SetupYtdlp ==
    /\ pc = "setup_ytdlp"
    /\ Uninterrupted
    /\ \E a \in YtdlpAnswers :
         LET r == setup_with_ytdlp(stream, a)
         IN /\ invoked' = Append(invoked, [name |-> "yt-dlp", ok |-> r.ok])
            /\ IF r.ok
               THEN /\ stream' = [r.stream EXCEPT !.successful_strategy = "yt-dlp"]
                    /\ setup_result' = "True"
                    /\ pc' = "setup_done"
               ELSE /\ stream' = r.stream
                    /\ setup_result' = setup_result
                    /\ pc' = "setup_streamlink"
    /\ UNCHANGED <<opened, releases, last_call, failures>>
    /\ UNCHANGED <<processorVars, fileVars, envVars>>
    /\ UNCHANGED componentVars

\* setup() in which a failure of the streamlink strategy ends the chain
SetupStreamlink_Aborts ==
    /\ pc = "setup_streamlink"
    /\ handler = <<>>
    /\ \E a \in StreamlinkAnswers :
         LET r == setup_with_streamlink(stream, a)
         IN /\ invoked' = Append(invoked, [name |-> "streamlink", ok |-> r.ok])
            /\ stream' = IF r.ok
                         THEN [r.stream EXCEPT !.successful_strategy = "streamlink"]
                         ELSE r.stream
            /\ setup_result' = IF r.ok THEN "True" ELSE "False"
    /\ pc' = "setup_done"
    /\ UNCHANGED <<opened, releases, last_call, failures>>
    /\ UNCHANGED <<processorVars, fileVars, envVars>>
    /\ UNCHANGED componentVars

\* ... then _setup_with_streamlink
SetupStreamlink ==
    /\ pc = "setup_streamlink"
    /\ Uninterrupted
    /\ \E a \in StreamlinkAnswers :
         LET r == setup_with_streamlink(stream, a)
         IN /\ invoked' = Append(invoked, [name |-> "streamlink", ok |-> r.ok])
            /\ IF r.ok
               THEN /\ stream' = [r.stream EXCEPT !.successful_strategy = "streamlink"]
                    /\ setup_result' = "True"
                    /\ pc' = "setup_done"
               ELSE /\ stream' = r.stream
                    /\ setup_result' = setup_result
                    /\ pc' = "setup_direct"
    /\ UNCHANGED <<opened, releases, last_call, failures>>
    /\ UNCHANGED <<processorVars, fileVars, envVars>>
    /\ UNCHANGED componentVars

\* ... then _setup_with_direct_extraction; after it setup() returns False
SetupDirect ==
    /\ pc = "setup_direct"
    /\ Uninterrupted
    /\ \E a \in DirectAnswers :
         LET r == setup_with_direct_extraction(stream, a)
         IN /\ invoked' = Append(invoked, [name |-> "direct_extraction", ok |-> r.ok])
            /\ IF r.ok
               THEN /\ stream' = [r.stream EXCEPT !.successful_strategy = "direct_extraction"]
                    /\ setup_result' = "True"
               ELSE /\ stream' = r.stream
                    /\ setup_result' = "False"
            /\ pc' = "setup_done"
    /\ UNCHANGED <<opened, releases, last_call, failures>>
    /\ UNCHANGED <<processorVars, fileVars, envVars>>
    /\ UNCHANGED componentVars

(***************************************************************************)
(* The collaborators as constructed, and the payload directory, before     *)
(* anything ran.                                                           *)
(***************************************************************************)
\* no payload file in temp_audio_extraction, no extract_audio call made
InitTempAudio ==
    /\ temp_audio = {}
    /\ extract_log = [calls |-> 0, file |-> NoFileFound]

\* PhraseDetector.__init__
NewDetector(target_phrases) ==
    [ target_phrases |-> target_phrases, context_window |-> ContextWindow,
      transcript_history |-> <<>>, detected_phrases |-> <<>> ]

NoDetectorLog == [passed |-> <<>>, pushed |-> <<>>, fired |-> <<>>, calls |-> 0]

InitDetector(target_phrases) ==
    /\ detector = NewDetector(target_phrases)
    /\ detector_log = NoDetectorLog

\* _detect_phrase not called
NoProbe == [text |-> <<>>, phrase |-> <<>>, result |-> None]

\* the seconds capture_screenshot waits between two captures
MinCaptureInterval == 2

\* ScreenshotCapturer.__init__
NewCapturer ==
    [last_capture_time |-> 0, min_capture_interval |-> MinCaptureInterval]

\* a thread slot capture_async has not used yet
IdleThread ==
    [pc |-> "idle", throttle |-> TRUE, current_time |-> 0, result |-> None]

InitCapturer ==
    /\ capturer = NewCapturer
    /\ capture_threads = [th \in 1..MaxThreads |-> IdleThread]
    /\ saved_frames = <<>>
    /\ clock = StartTime

\* VisionAnalyzer.__init__
NewAnalyzer == [analysis_history |-> <<>>]

InitAnalyzer ==
    /\ analyzer = NewAnalyzer
    /\ analyzer_log = [calls |-> 0, result |-> None]

\* LiveTranscriber.__init__: use_deepgram is whether DEEPGRAM_API_KEY is set;
\* sdk_available is the module's DEEPGRAM_SDK_AVAILABLE
NewTranscriber(api_key, sdk_available) ==
    [use_deepgram |-> api_key, sdk_available |-> sdk_available]

\* _transcribe_audio_file not called
NoTranscription ==
    [calls |-> 0, audio_file |-> None, services |-> <<>>, deepgram |-> None,
     google |-> None, result |-> None]

\* YouTubeAPIHandler.__init__ with setup_youtube_service: the service exists
\* when there is an API key and build() did not raise
NewApiHandler(api_key, build_raises) ==
    [youtube_service |-> api_key /\ ~build_raises]

\* get_video_info not called
NoRequest == [calls |-> 0, invoked |-> <<>>, configs |-> 0, info |-> None]

\* no LiveTranscriber and no YouTubeAPIHandler constructed
NoServices ==
    /\ transcriber = None
    /\ transcribe_log = NoTranscription
    /\ api_handler = None
    /\ api_log = NoRequest

\* the target phrases the processor is started with: "a b"
ProcessorTargets == << <<"a", " ", "b">> >>

(***************************************************************************)
(* SpecStream: a caller holding an EnhancedYouTubeStream calls setup()     *)
(* once and the other public methods in any order, before or after it.     *)
(***************************************************************************)
CallerIdle == pc \in {"new", "setup_done"}

CallSetup ==
    /\ pc = "new"
    /\ pc' = "setup_ytdlp"
    /\ UNCHANGED <<streamVars, processorVars, fileVars, envVars>>
    /\ UNCHANGED componentVars

\* extract_audio called by the caller: the helper of the pinned strategy runs
\* on the directory temp_audio_extraction, and what it finds there is returned
CallExtractAudio ==
    /\ CallerIdle
    /\ extract_log.calls < MaxExtracts
    /\ \E a \in DownloadAnswers, c \in CaptureRuns, pick \in 1..MaxExtracts :
         LET k == extract_log.calls + 1
             method == extract_audio(stream, "audio.mp3").method
             x == IF method = "yt-dlp"
                  THEN extract_audio_ytdlp(temp_audio, k, a, pick)
                  ELSE IF method = "streamlink"
                  THEN extract_audio_streamlink(temp_audio, k, c)
                  ELSE [dir |-> temp_audio, file |-> NoFileFound]
             e == extract_audio(stream, IF x.file = NoFileFound THEN None
                                        ELSE "audio.mp3")
         IN /\ temp_audio' = x.dir
            /\ extract_log' = [calls |-> k, file |-> x.file]
            /\ last_call' = Call("extract_audio", e.method, e.result)
            /\ failures' = IF e.result = None
                           THEN Min(failures + 1, MaxFailures) ELSE 0
    /\ UNCHANGED <<stream, opened, releases, invoked, setup_result, pc>>
    /\ UNCHANGED <<processorVars, fileVars, envVars>>
    /\ UNCHANGED <<collaboratorVars, serviceVars>>

CallDownloadAudio ==
    /\ CallerIdle
    /\ \E r \in AudioResults :
         LET e == download_audio(stream, r)
         IN last_call' = Call("download_audio", e.method, e.result)
    /\ UNCHANGED <<stream, opened, releases, invoked, setup_result, failures, pc>>
    /\ UNCHANGED <<processorVars, fileVars, envVars>>
    /\ UNCHANGED componentVars

CallStartVideoCapture ==
    /\ CallerIdle
    /\ \E a \in CaptureAnswers :
         LET v == start_video_capture(stream, a, opened + 1)
         IN /\ v.cap # NoCap => opened < MaxHandles
            /\ stream' = v.stream
            /\ opened' = IF v.cap # NoCap THEN opened + 1 ELSE opened
            /\ last_call' = Call("start_video_capture", v.method,
                                 IF v.cap # NoCap THEN "cap" ELSE None)
    /\ UNCHANGED <<releases, invoked, setup_result, failures, pc>>
    /\ UNCHANGED <<processorVars, fileVars, envVars>>
    /\ UNCHANGED componentVars

CallStopVideoCapture ==
    /\ CallerIdle
    /\ LET r == stop_video_capture(stream, releases)
       IN /\ stream' = r.stream
          /\ releases' = r.releases
    /\ last_call' = Call("stop_video_capture", None, None)
    /\ UNCHANGED <<opened, invoked, setup_result, failures, pc>>
    /\ UNCHANGED <<processorVars, fileVars, envVars>>
    /\ UNCHANGED componentVars

CallRelease ==
    /\ CallerIdle
    /\ LET r == release(stream, releases)
       IN /\ stream' = r.stream
          /\ releases' = r.releases
    /\ last_call' = Call("release", None, None)
    /\ UNCHANGED <<opened, invoked, setup_result, failures, pc>>
    /\ UNCHANGED <<processorVars, fileVars, envVars>>
    /\ UNCHANGED componentVars

NoFile == [exists |-> FALSE, segments |-> 0, text |-> <<>>]

InitCommon ==
    /\ stream = NewStream
    /\ opened = 0
    /\ releases = [h \in 1..MaxHandles |-> 0]
    /\ invoked = <<>>
    /\ setup_result = None
    /\ last_call = NoCall
    /\ failures = 0
    /\ stop_event = FALSE
    /\ transcript_counter = 0
    /\ full_transcript = <<>>
    /\ last_extraction_time = 0
    /\ current_time = 0
    /\ transcript_chunk = None
    /\ start_result = None
    /\ segment_files = {}
    /\ full_transcript_file = NoFile
    /\ final_transcript_file = NoFile
    /\ console = <<>>
    /\ now = StartTime
    /\ handler = <<>>
    /\ signals = 0
    /\ in_flight = 0
    /\ stop_bodies = 0

\* a stream alone: no processor, no collaborator in use
InitStream ==
    /\ InitCommon
    /\ pc = "new"
    /\ InitTempAudio
    /\ InitDetector(<<>>)
    /\ probe = NoProbe
    /\ InitCapturer
    /\ InitAnalyzer
    /\ NoServices

NextStream ==
    \/ CallSetup
    \/ SetupYtdlp
    \/ SetupStreamlink
    \/ SetupDirect
    \/ CallExtractAudio
    \/ CallDownloadAudio
    \/ CallStartVideoCapture
    \/ CallStopVideoCapture
    \/ CallRelease

SpecStream == InitStream /\ [][NextStream]_vars

(***************************************************************************)
(* YouTubeLiveProcessor: transcript persistence.                           *)
(***************************************************************************)
\* what LiveTranscriber._transcribe_audio_file can return for a chunk
RawTranscripts == {None, "", "  ", "a", " b "}

\* str.strip() on those
Strip(x) ==
    CASE x = "  " -> ""
      [] x = " b " -> "b"
      [] OTHER -> x

\* _process_audio_chunk_direct: the stripped transcript, or None when the
\* transcription raised, returned nothing or returned only whitespace
process_audio_chunk_direct(raises, transcript) ==
    IF raises THEN None
    ELSE IF transcript # None /\ transcript # "" /\ Strip(transcript) # ""
    THEN Strip(transcript)
    ELSE None

\* how the two writes of _save_transcript_chunk can go
SaveOutcomes == {"ok", "segment_fails", "snapshot_write_fails"}

\* a file opened with mode 'w' and not written: it exists and is empty
Truncated == [exists |-> TRUE, segments |-> 0, text |-> <<>>]

\* a save whose snapshot holds the new chunk only
save_transcript_chunk_SnapshotLastOnly(chunk, outcome) ==
    LET n == transcript_counter + 1
        text == Append(full_transcript, chunk)
    IN IF outcome = "segment_fails"
       THEN [transcript_counter |-> n, full_transcript |-> full_transcript,
             segment_files |-> segment_files,
             full_transcript_file |-> full_transcript_file]
       ELSE [transcript_counter |-> n, full_transcript |-> text,
             segment_files |-> segment_files \cup {n},
             full_transcript_file |->
                 IF outcome = "snapshot_write_fails" THEN Truncated
                 ELSE [exists |-> TRUE, segments |-> n, text |-> <<chunk>>]]

\* _save_transcript_chunk: the counter, the running transcript and the files
\* afterwards; an exception of a write is caught and ends the method there
save_transcript_chunk(chunk, outcome) ==
    LET n == transcript_counter + 1
        text == Append(full_transcript, chunk)
    IN IF outcome = "segment_fails"
       THEN [transcript_counter |-> n, full_transcript |-> full_transcript,
             segment_files |-> segment_files,
             full_transcript_file |-> full_transcript_file]
       ELSE [transcript_counter |-> n, full_transcript |-> text,
             segment_files |-> segment_files \cup {n},
             full_transcript_file |->
                 IF outcome = "snapshot_write_fails" THEN Truncated
                 ELSE [exists |-> TRUE, segments |-> n, text |-> text]]

\* _save_final_transcript on a processor with the given counter and running
\* transcript: final_transcript.txt afterwards, given the file before; it is
\* written (mode 'w') only when the running transcript is not empty
final_transcript(counter, text, file) ==
    IF text # <<>>
    THEN [exists |-> TRUE, segments |-> counter, text |-> text]
    ELSE file

\* a final save that opens final_transcript.txt in append mode
save_final_transcript_Appends ==
    IF full_transcript # <<>>
    THEN [exists |-> TRUE, segments |-> transcript_counter,
          text |-> final_transcript_file.text \o full_transcript]
    ELSE final_transcript_file

\* _save_final_transcript: final_transcript.txt afterwards
save_final_transcript ==
    final_transcript(transcript_counter, full_transcript, final_transcript_file)

\* the two print() calls of _save_final_transcript, made after the file was
\* written: the terminal afterwards (the total of segments is what is kept)
print_summary ==
    IF full_transcript # <<>>
    THEN Append(console, transcript_counter)
    ELSE console

(***************************************************************************)
(* YouTubeLiveProcessor.stop(), run by the signal handler on top of        *)
(* whatever the main thread was doing, and by the finally of start().      *)
(***************************************************************************)
\* the body of stop(), after its stop_event check
StopBody ==
    /\ stop_event' = TRUE
    /\ LET r == release(stream, releases)
       IN /\ stream' = r.stream
          /\ releases' = r.releases
    /\ last_call' = Call("release", None, None)
    /\ final_transcript_file' = save_final_transcript
    /\ console' = print_summary
    /\ stop_bodies' = stop_bodies + 1

\* the process is running start(): its handlers can be invoked
Alive == pc \notin {"new", "returned"}

\* SIGINT or SIGTERM is delivered: _signal_handler starts on top of the
\* interrupted code (or of a handler that was already running)
Signal ==
    /\ Alive
    /\ signals < MaxSignals
    /\ signals' = signals + 1
    /\ handler' = Append(handler, "stop")
    /\ UNCHANGED <<streamVars, pc, processorVars, fileVars, now, in_flight, stop_bodies>>
    /\ UNCHANGED componentVars

Top == handler[Len(handler)]

Pop == SubSeq(handler, 1, Len(handler) - 1)

\* the handler's stop(): `if self.stop_event.is_set(): return`
HandlerStopCheck ==
    /\ handler # <<>>
    /\ Top = "stop"
    /\ handler' = IF stop_event THEN Pop ELSE Append(Pop, "stop_body")
    /\ UNCHANGED <<streamVars, pc, processorVars, fileVars, now, signals, in_flight, stop_bodies>>
    /\ UNCHANGED componentVars

\* the handler's stop(): the rest, then the handler returns
HandlerStopBody ==
    /\ handler # <<>>
    /\ Top = "stop_body"
    /\ StopBody
    /\ handler' = Pop
    /\ UNCHANGED <<opened, invoked, setup_result, failures, pc>>
    /\ UNCHANGED <<transcript_counter, full_transcript, last_extraction_time,
                   current_time, transcript_chunk, start_result>>
    /\ UNCHANGED <<segment_files, full_transcript_file, now, signals, in_flight>>
    /\ UNCHANGED componentVars

(***************************************************************************)
(* YouTubeLiveProcessor.start(): setup, then the timed loop.               *)
(***************************************************************************)
\* the extraction period of the loop, in seconds
IntervalSeconds == 30

\* whole seconds that time.sleep(0.1) and one loop pass can take
SleepDurations == {0, 30}

\* whole seconds that extract_audio or a transcription can take
CallDurations == {0, 40}

MaxTime == StartTime + MaxElapsed

\* start() enters setup(), which calls stream.setup()
Start ==
    /\ pc = "start"
    /\ Uninterrupted
    /\ pc' = "setup_ytdlp"
    /\ UNCHANGED <<streamVars, processorVars, fileVars, envVars>>
    /\ UNCHANGED componentVars

\* setup() after stream.setup() returned: fail, or reset the tick time and
\* start the video capture; start() returns False when setup() does
ProcessorSetup ==
    /\ pc = "setup_done"
    /\ Uninterrupted
    /\ IF setup_result = "False"
       THEN /\ pc' = "returned"
            /\ start_result' = "False"
            /\ UNCHANGED <<stream, opened, last_call, last_extraction_time>>
       ELSE /\ last_extraction_time' = 0
            /\ \E a \in CaptureAnswers :
                 LET v == start_video_capture(stream, a, opened + 1)
                 IN /\ v.cap # NoCap => opened < MaxHandles
                    /\ stream' = v.stream
                    /\ opened' = IF v.cap # NoCap THEN opened + 1 ELSE opened
                    /\ last_call' = Call("start_video_capture", v.method,
                                         IF v.cap # NoCap THEN "cap" ELSE None)
                    /\ IF v.cap # NoCap
                       THEN pc' = "loop" /\ start_result' = start_result
                       ELSE pc' = "returned" /\ start_result' = "False"
    /\ UNCHANGED <<releases, invoked, setup_result, failures>>
    /\ UNCHANGED <<stop_event, transcript_counter, full_transcript,
                   current_time, transcript_chunk>>
    /\ UNCHANGED <<fileVars, envVars>>
    /\ UNCHANGED componentVars

\* a loop whose condition does not look at stop_event
LoopCheck_IgnoresStop ==
    /\ pc = "loop"
    /\ handler = <<>>
    /\ pc' = "tick"
    /\ UNCHANGED <<streamVars, processorVars, fileVars, envVars>>
    /\ UNCHANGED componentVars

\* `while not self.stop_event.is_set():`
LoopCheck ==
    /\ pc = "loop"
    /\ Uninterrupted
    /\ pc' = IF stop_event THEN "finally" ELSE "tick"
    /\ UNCHANGED <<streamVars, processorVars, fileVars, envVars>>
    /\ UNCHANGED componentVars

\* a tick that hands its cycle to the background and goes on polling
TickCheck_Background ==
    /\ pc = "tick"
    /\ handler = <<>>
    /\ current_time' = now
    /\ pc' = "sleep"
    /\ in_flight' = IF now - last_extraction_time >= IntervalSeconds
                    THEN in_flight + 1 ELSE in_flight
    /\ UNCHANGED <<stop_event, transcript_counter, full_transcript,
                   last_extraction_time, transcript_chunk, start_result>>
    /\ UNCHANGED <<streamVars, fileVars, now, handler, signals, stop_bodies>>
    /\ UNCHANGED componentVars

\* a tick that begins a cycle on every pass of the loop
TickCheck_EveryPass ==
    /\ pc = "tick"
    /\ handler = <<>>
    /\ current_time' = now
    /\ pc' = "extract"
    /\ in_flight' = in_flight + 1
    /\ UNCHANGED <<stop_event, transcript_counter, full_transcript,
                   last_extraction_time, transcript_chunk, start_result>>
    /\ UNCHANGED <<streamVars, fileVars, now, handler, signals, stop_bodies>>
    /\ UNCHANGED componentVars

\* `current_time = time.time()` and the interval test: a cycle begins when
\* the interval has passed, else the pass goes to its sleep
TickCheck ==
    /\ pc = "tick"
    /\ Uninterrupted
    /\ current_time' = now
    /\ IF now - last_extraction_time >= IntervalSeconds
       THEN pc' = "extract" /\ in_flight' = in_flight + 1
       ELSE pc' = "sleep" /\ in_flight' = in_flight
    /\ UNCHANGED <<stop_event, transcript_counter, full_transcript,
                   last_extraction_time, transcript_chunk, start_result>>
    /\ UNCHANGED <<streamVars, fileVars, now, handler, signals, stop_bodies>>
    /\ UNCHANGED componentVars

\* a cycle that allocates a sequence number also when extraction failed
Extract_CountsFailure ==
    /\ pc = "extract"
    /\ handler = <<>>
    /\ \E d \in CallDurations, r \in AudioResults :
         LET e == extract_audio(stream, r)
         IN /\ now + d <= MaxTime
            /\ now' = now + d
            /\ last_call' = Call("extract_audio", e.method, e.result)
            /\ IF e.result # None
               THEN /\ pc' = "transcribe"
                    /\ in_flight' = in_flight
                    /\ transcript_counter' = transcript_counter
               ELSE /\ pc' = "sleep"
                    /\ in_flight' = in_flight - 1
                    /\ transcript_counter' = transcript_counter + 1
    /\ UNCHANGED <<stream, opened, releases, invoked, setup_result, failures>>
    /\ UNCHANGED <<stop_event, full_transcript, last_extraction_time,
                   current_time, transcript_chunk, start_result>>
    /\ UNCHANGED <<fileVars, handler, signals, stop_bodies>>
    /\ UNCHANGED componentVars

\* `audio_file = self.stream.extract_audio(duration_seconds=30)`; with no
\* audio the cycle ends here with a warning
Extract ==
    /\ pc = "extract"
    /\ Uninterrupted
    /\ \E d \in CallDurations, r \in AudioResults :
         LET e == extract_audio(stream, r)
         IN /\ now + d <= MaxTime
            /\ now' = now + d
            /\ last_call' = Call("extract_audio", e.method, e.result)
            /\ IF e.result # None
               THEN pc' = "transcribe" /\ in_flight' = in_flight
               ELSE pc' = "sleep" /\ in_flight' = in_flight - 1
    /\ UNCHANGED <<stream, opened, releases, invoked, setup_result, failures>>
    /\ UNCHANGED <<stop_event, transcript_counter, full_transcript,
                   last_extraction_time, current_time, transcript_chunk, start_result>>
    /\ UNCHANGED <<fileVars, handler, signals, stop_bodies>>
    /\ UNCHANGED componentVars

\* `transcript_chunk = self._process_audio_chunk_direct(audio_file)`; once
\* MaxChunks chunks are recorded the source is silent
Transcribe ==
    /\ pc = "transcribe"
    /\ Uninterrupted
    /\ \E d \in CallDurations, raises \in BOOLEAN, x \in RawTranscripts :
         /\ now + d <= MaxTime
         /\ now' = now + d
         /\ transcript_counter >= MaxChunks
               => process_audio_chunk_direct(raises, x) = None
         /\ transcript_chunk' = process_audio_chunk_direct(raises, x)
    /\ pc' = "save"
    /\ UNCHANGED <<stop_event, transcript_counter, full_transcript,
                   last_extraction_time, current_time, start_result>>
    /\ UNCHANGED <<streamVars, fileVars, handler, signals, in_flight, stop_bodies>>
    /\ UNCHANGED componentVars

\* a cycle in which the error of a failed write escapes
\* _save_transcript_chunk and ends the loop
Save_Raises ==
    /\ pc = "save"
    /\ handler = <<>>
    /\ IF transcript_chunk # None
       THEN \E outcome \in SaveOutcomes :
              LET r == save_transcript_chunk(transcript_chunk, outcome)
              IN /\ transcript_counter' = r.transcript_counter
                 /\ full_transcript' = r.full_transcript
                 /\ segment_files' = r.segment_files
                 /\ full_transcript_file' = r.full_transcript_file
                 /\ pc' = IF outcome = "ok" THEN "sleep" ELSE "finally"
       ELSE /\ pc' = "sleep"
            /\ UNCHANGED <<transcript_counter, full_transcript, segment_files,
                           full_transcript_file>>
    /\ last_extraction_time' = current_time
    /\ transcript_chunk' = None
    /\ in_flight' = in_flight - 1
    /\ UNCHANGED <<stop_event, current_time, start_result>>
    /\ UNCHANGED <<streamVars, final_transcript_file, console, now, handler,
                   signals, stop_bodies>>
    /\ UNCHANGED componentVars

\* `if transcript_chunk: self._save_transcript_chunk(transcript_chunk)` and
\* `self.last_extraction_time = current_time`: the cycle is finished (the
\* local transcript_chunk is not read again before it is reassigned)
Save ==
    /\ pc = "save"
    /\ Uninterrupted
    /\ IF transcript_chunk # None
       THEN \E outcome \in SaveOutcomes :
              LET r == save_transcript_chunk(transcript_chunk, outcome)
              IN /\ transcript_counter' = r.transcript_counter
                 /\ full_transcript' = r.full_transcript
                 /\ segment_files' = r.segment_files
                 /\ full_transcript_file' = r.full_transcript_file
       ELSE UNCHANGED <<transcript_counter, full_transcript, segment_files,
                        full_transcript_file>>
    /\ last_extraction_time' = current_time
    /\ transcript_chunk' = None
    /\ in_flight' = in_flight - 1
    /\ pc' = "sleep"
    /\ UNCHANGED <<stop_event, current_time, start_result>>
    /\ UNCHANGED <<streamVars, final_transcript_file, console, now, handler,
                   signals, stop_bodies>>
    /\ UNCHANGED componentVars

\* `time.sleep(0.1)`, the end of one pass of the loop
Sleep ==
    /\ pc = "sleep"
    /\ Uninterrupted
    /\ \E d \in SleepDurations :
         /\ now + d <= MaxTime
         /\ now' = now + d
    /\ pc' = "loop"
    /\ UNCHANGED <<streamVars, processorVars, fileVars, handler, signals,
                   in_flight, stop_bodies>>
    /\ UNCHANGED componentVars

\* `finally: self.stop()` and `return True`. The loop is left only through
\* its condition: every call made in it catches its own exceptions, so the
\* `except` of start() is never entered
Finally ==
    /\ pc = "finally"
    /\ Uninterrupted
    /\ IF stop_event
       THEN UNCHANGED <<stop_event, stream, releases, last_call,
                        final_transcript_file, console, stop_bodies>>
       ELSE StopBody
    /\ pc' = "returned"
    /\ start_result' = "True"
    /\ UNCHANGED <<opened, invoked, setup_result, failures>>
    /\ UNCHANGED <<transcript_counter, full_transcript, last_extraction_time,
                   current_time, transcript_chunk>>
    /\ UNCHANGED <<segment_files, full_transcript_file, now, handler, signals, in_flight>>
    /\ UNCHANGED componentVars

\* YouTubeLiveProcessor.__init__, which constructs the stream's owner and
\* the detector, the capturer and the analyzer
Init ==
    /\ InitCommon
    /\ pc = "start"
    /\ InitTempAudio
    /\ InitDetector(ProcessorTargets)
    /\ probe = NoProbe
    /\ InitCapturer
    /\ InitAnalyzer
    /\ NoServices

\* the steps of the main thread
MainStep ==
    \/ Start
    \/ SetupYtdlp
    \/ SetupStreamlink
    \/ SetupDirect
    \/ ProcessorSetup
    \/ LoopCheck
    \/ TickCheck
    \/ Extract
    \/ Transcribe
    \/ Save
    \/ Sleep
    \/ Finally

\* the steps of a running signal handler
HandlerStep ==
    \/ HandlerStopCheck
    \/ HandlerStopBody

Next ==
    \/ MainStep
    \/ HandlerStep
    \/ Signal

Spec == Init /\ [][Next]_vars

\* the interpreter keeps running the main thread, and a handler once invoked
FairSpec == Spec /\ WF_vars(MainStep) /\ WF_vars(HandlerStep)

(***************************************************************************)
(* PhraseDetector (phrase_detector.py). A text is the sequence of its      *)
(* characters.                                                             *)
(***************************************************************************)
\* str.lower()
Lower(t) == [i \in 1..Len(t) |-> IF t[i] = "A" THEN "a" ELSE t[i]]

\* `phrase in text`: phrase is a substring of text
Contains(text, phrase) ==
    \E i \in 1..(Len(text) + 1) :
        /\ i + Len(phrase) - 1 <= Len(text)
        /\ SubSeq(text, i, i + Len(phrase) - 1) = phrase

\* str.split(): the maximal runs without whitespace, in order
Split(t) ==
    LET starts == { i \in 1..Len(t) :
                      t[i] # " " /\ (i = 1 \/ t[i - 1] = " ") }
        nth(k) == CHOOSE i \in starts :
                      Cardinality({ j \in starts : j < i }) = k - 1
        last(i) == CHOOSE j \in i..Len(t) :
                      /\ \A m \in i..j : t[m] # " "
                      /\ (j = Len(t) \/ t[j + 1] = " ")
    IN [k \in 1..Cardinality(starts) |-> SubSeq(t, nth(k), last(nth(k)))]

\* the words of a text, as `word in text_words` sees them
WordSet(t) == { Split(t)[k] : k \in 1..Len(Split(t)) }

\* " ".join(history)
RECURSIVE Join(_)
Join(history) ==
    IF history = <<>> THEN <<>>
    ELSE IF Len(history) = 1 THEN history[1]
    ELSE history[1] \o <<" ">> \o Join(Tail(history))

\* _detect_phrase in which the 75 % threshold is strict
detect_phrase_StrictThreshold(text, phrase) ==
    IF Contains(text, phrase) THEN TRUE
    ELSE LET phrase_words == Split(phrase)
             matches == Cardinality({ k \in 1..Len(phrase_words) :
                                        phrase_words[k] \in WordSet(text) })
         IN IF Len(phrase_words) <= 2
            THEN \A k \in 1..Len(phrase_words) : phrase_words[k] \in WordSet(text)
            ELSE 4 * matches > 3 * Len(phrase_words)

\* _detect_phrase in which the words of a short phrase must come in order
detect_phrase_InOrder(text, phrase) ==
    IF Contains(text, phrase) THEN TRUE
    ELSE LET phrase_words == Split(phrase)
             text_words == Split(text)
             matches == Cardinality({ k \in 1..Len(phrase_words) :
                                        phrase_words[k] \in WordSet(text) })
         IN IF Len(phrase_words) <= 2
            THEN /\ \A k \in 1..Len(phrase_words) : phrase_words[k] \in WordSet(text)
                 /\ Len(phrase_words) = 2 =>
                      \E i, j \in 1..Len(text_words) :
                          /\ i < j
                          /\ text_words[i] = phrase_words[1]
                          /\ text_words[j] = phrase_words[2]
            ELSE 4 * matches >= 3 * Len(phrase_words)

\* _detect_phrase(text, phrase); matches / len(phrase_words) >= 0.75 is
\* 4 * matches >= 3 * len(phrase_words)
detect_phrase(text, phrase) ==
    IF Contains(text, phrase) THEN TRUE
    ELSE LET phrase_words == Split(phrase)
             matches == Cardinality({ k \in 1..Len(phrase_words) :
                                        phrase_words[k] \in WordSet(text) })
         IN IF Len(phrase_words) <= 2
            THEN \A k \in 1..Len(phrase_words) : phrase_words[k] \in WordSet(text)
            ELSE 4 * matches >= 3 * Len(phrase_words)

\* a deque that drops the new element when it is full
deque_append_DropsNewest(q, x, maxlen) ==
    IF Len(q) < maxlen THEN Append(q, x) ELSE q

\* deque(maxlen=...).append(x)
deque_append(q, x, maxlen) ==
    IF Len(q) < maxlen THEN Append(q, x)
    ELSE IF maxlen = 0 THEN <<>>
    ELSE Append(Tail(q), x)

add_target_phrase(d, phrase) ==
    IF phrase # <<>> /\ ~InSeq(phrase, d.target_phrases)
    THEN [d EXCEPT !.target_phrases = Append(@, phrase)]
    ELSE d

\* list.remove(x): the list without the first occurrence of x
ListRemove(q, x) ==
    LET i == CHOOSE k \in 1..Len(q) :
                 q[k] = x /\ \A j \in 1..(k - 1) : q[j] # x
    IN SubSeq(q, 1, i - 1) \o SubSeq(q, i + 1, Len(q))

\* remove_target_phrase that also forgets that the phrase was detected
remove_target_phrase_Forgets(d, phrase) ==
    IF InSeq(phrase, d.target_phrases)
    THEN [d EXCEPT !.target_phrases = ListRemove(@, phrase),
                   !.detected_phrases = SelectSeq(@, LAMBDA x : x # phrase)]
    ELSE d

remove_target_phrase(d, phrase) ==
    IF InSeq(phrase, d.target_phrases)
    THEN [d EXCEPT !.target_phrases = ListRemove(@, phrase)]
    ELSE d

\* process_transcript: the detector afterwards, the list returned, and
\* whether the chunk was appended to the history
process_transcript(d, chunk) ==
    IF chunk = <<>> \/ d.target_phrases = <<>>
    THEN [detector |-> d, result |-> <<>>, pushed |-> FALSE]
    ELSE LET history == deque_append(d.transcript_history, chunk,
                                     d.context_window)
             combined_text == Lower(Join(history))
             scan[n \in 0..Len(d.target_phrases)] ==
                 IF n = 0 THEN [detected |-> d.detected_phrases, new |-> <<>>]
                 ELSE LET phrase == d.target_phrases[n]
                      IN IF /\ detect_phrase(combined_text, Lower(phrase))
                            /\ ~InSeq(phrase, scan[n - 1].detected)
                         THEN [detected |-> Append(scan[n - 1].detected, phrase),
                               new |-> Append(scan[n - 1].new, phrase)]
                         ELSE scan[n - 1]
             done == scan[Len(d.target_phrases)]
         IN [detector |-> [d EXCEPT !.transcript_history = history,
                                    !.detected_phrases = done.detected],
             result |-> done.new,
             pushed |-> TRUE]

\* texts passed to process_transcript: "", "a", "b", "c", "a b"
Chunks ==
    { <<>>, <<"a">>, <<"b">>, <<"c">>, <<"a", " ", "b">> }

\* phrases given to the detector: "a b", "b", and "" (which add refuses)
Phrases ==
    { <<"a", " ", "b">>, <<"b">>, <<>> }

\* the target_phrases the detector is constructed with
TargetLists ==
    { <<>>, << <<"a", " ", "b">> >>, << <<"b">>, <<"b">> >> }

AddTargetPhrase ==
    /\ \E phrase \in Phrases : detector' = add_target_phrase(detector, phrase)
    /\ UNCHANGED <<detector_log, probe, capturer, capture_threads, saved_frames,
                   clock, analyzer, analyzer_log>>
    /\ UNCHANGED <<runVars, temp_audio, extract_log, serviceVars>>

RemoveTargetPhrase ==
    /\ \E phrase \in Phrases : detector' = remove_target_phrase(detector, phrase)
    /\ UNCHANGED <<detector_log, probe, capturer, capture_threads, saved_frames,
                   clock, analyzer, analyzer_log>>
    /\ UNCHANGED <<runVars, temp_audio, extract_log, serviceVars>>

ProcessTranscript ==
    /\ detector_log.calls < MaxCalls
    /\ \E chunk \in Chunks :
         LET r == process_transcript(detector, chunk)
         IN /\ detector' = r.detector
            /\ detector_log' =
                 [passed |-> IF chunk # <<>>
                             THEN Append(detector_log.passed, chunk)
                             ELSE detector_log.passed,
                  pushed |-> IF r.pushed
                             THEN Append(detector_log.pushed, chunk)
                             ELSE detector_log.pushed,
                  fired |-> detector_log.fired \o r.result,
                  calls |-> detector_log.calls + 1]
    /\ UNCHANGED <<probe, capturer, capture_threads, saved_frames,
                   clock, analyzer, analyzer_log>>
    /\ UNCHANGED <<runVars, temp_audio, extract_log, serviceVars>>

\* a PhraseDetector driven through its public methods by an arbitrary caller
InitPhraseDetector ==
    /\ InitCommon
    /\ pc = "new"
    /\ InitTempAudio
    /\ \E target_phrases \in TargetLists : InitDetector(target_phrases)
    /\ probe = NoProbe
    /\ InitCapturer
    /\ InitAnalyzer
    /\ NoServices

NextDetector ==
    \/ AddTargetPhrase
    \/ RemoveTargetPhrase
    \/ ProcessTranscript

SpecDetector == InitPhraseDetector /\ [][NextDetector]_vars

(***************************************************************************)
(* SpecMatch: one call of _detect_phrase as process_transcript makes it,   *)
(* on the lowercased window text and the lowercased phrase.                *)
(***************************************************************************)
\* window texts: "", "a", "ab", "b a", "a b c", "A b", "a  b", "c d",
\* "ba c d", "b c d"
ProbeTexts ==
    { <<>>,
      <<"a">>,
      <<"a", "b">>,
      <<"b", " ", "a">>,
      <<"a", " ", "b", " ", "c">>,
      <<"A", " ", "b">>,
      <<"a", " ", " ", "b">>,
      <<"c", " ", "d">>,
      <<"b", "a", " ", "c", " ", "d">>,
      <<"b", " ", "c", " ", "d">> }

\* phrases: "", " ", "a", "b", "a b", "b a", "A b", "a b c", "a b c d",
\* "c a b", "a a b c"
ProbePhrases ==
    { <<>>,
      <<" ">>,
      <<"a">>,
      <<"b">>,
      <<"a", " ", "b">>,
      <<"b", " ", "a">>,
      <<"A", " ", "b">>,
      <<"a", " ", "b", " ", "c">>,
      <<"a", " ", "b", " ", "c", " ", "d">>,
      <<"c", " ", "a", " ", "b">>,
      <<"a", " ", "a", " ", "b", " ", "c">> }

InitMatch ==
    /\ InitCommon
    /\ pc = "new"
    /\ InitTempAudio
    /\ InitDetector(<<>>)
    /\ \E text \in ProbeTexts, phrase \in ProbePhrases :
         probe = [text |-> text, phrase |-> phrase, result |-> None]
    /\ InitCapturer
    /\ InitAnalyzer
    /\ NoServices

\* self._detect_phrase(combined_text, phrase.lower()), combined_text being
\* lowercased by process_transcript
DetectPhrase ==
    /\ probe.result = None
    /\ probe' = [probe EXCEPT !.result =
                    IF detect_phrase(Lower(probe.text), Lower(probe.phrase))
                    THEN "True" ELSE "False"]
    /\ UNCHANGED <<detector, detector_log, capturer, capture_threads,
                   saved_frames, clock, analyzer, analyzer_log>>
    /\ UNCHANGED <<runVars, temp_audio, extract_log, serviceVars>>

NextMatch == DetectPhrase

SpecMatch == InitMatch /\ [][NextMatch]_vars

(***************************************************************************)
(* ScreenshotCapturer (screenshot_capturer.py): capture_async starts one   *)
(* thread per request, each running capture_screenshot with throttling.    *)
(***************************************************************************)
\* capture_async: frame.copy() may raise (the request returns False), else a
\* thread is started on capture_screenshot
CaptureAsync ==
    /\ \E th \in 1..MaxThreads :
         /\ capture_threads[th].pc = "idle"
         /\ \A other \in 1..(th - 1) : capture_threads[other].pc # "idle"
         /\ \E copy_raises \in BOOLEAN :
              capture_threads' =
                  IF copy_raises THEN capture_threads
                  ELSE [capture_threads EXCEPT ![th].pc = "check"]
    /\ UNCHANGED <<capturer, saved_frames, clock>>
    /\ UNCHANGED <<detector, detector_log, probe, analyzer, analyzer_log>>
    /\ UNCHANGED <<runVars, temp_audio, extract_log, serviceVars>>

\* a capture_screenshot that moves last_capture_time before its throttle test
ThreadCheck_DroppedExtends ==
    /\ \E th \in 1..MaxThreads :
         /\ capture_threads[th].pc = "check"
         /\ capture_threads' =
              IF /\ capture_threads[th].throttle
                 /\ clock - capturer.last_capture_time < capturer.min_capture_interval
              THEN [capture_threads EXCEPT ![th].pc = "done",
                                           ![th].current_time = clock]
              ELSE [capture_threads EXCEPT ![th].pc = "set",
                                           ![th].current_time = clock]
         /\ capturer' = [capturer EXCEPT !.last_capture_time = clock]
    /\ UNCHANGED <<saved_frames, clock>>
    /\ UNCHANGED <<detector, detector_log, probe, analyzer, analyzer_log>>
    /\ UNCHANGED <<runVars, temp_audio, extract_log, serviceVars>>

\* capture_screenshot: `current_time = time.time()` and the throttle test
ThreadCheck ==
    /\ \E th \in 1..MaxThreads :
         /\ capture_threads[th].pc = "check"
         /\ capture_threads' =
              IF /\ capture_threads[th].throttle
                 /\ clock - capturer.last_capture_time < capturer.min_capture_interval
              THEN [capture_threads EXCEPT ![th].pc = "done",
                                           ![th].current_time = clock]
              ELSE [capture_threads EXCEPT ![th].pc = "set",
                                           ![th].current_time = clock]
    /\ UNCHANGED <<capturer, saved_frames, clock>>
    /\ UNCHANGED <<detector, detector_log, probe, analyzer, analyzer_log>>
    /\ UNCHANGED <<runVars, temp_audio, extract_log, serviceVars>>

\* capture_screenshot: `self.last_capture_time = current_time`
ThreadSet ==
    /\ \E th \in 1..MaxThreads :
         /\ capture_threads[th].pc = "set"
         /\ capturer' = [capturer EXCEPT !.last_capture_time =
                                             capture_threads[th].current_time]
         /\ capture_threads' = [capture_threads EXCEPT ![th].pc = "save"]
    /\ UNCHANGED <<saved_frames, clock>>
    /\ UNCHANGED <<detector, detector_log, probe, analyzer, analyzer_log>>
    /\ UNCHANGED <<runVars, temp_audio, extract_log, serviceVars>>

\* capture_screenshot: the frame is written and its path returned, or the
\* write raises and None is returned
ThreadSave ==
    /\ \E th \in 1..MaxThreads, write_raises \in BOOLEAN :
         /\ capture_threads[th].pc = "save"
         /\ capture_threads' =
              [capture_threads EXCEPT
                  ![th].pc = "done",
                  ![th].result = IF write_raises THEN None ELSE "screenshot.jpg"]
         /\ saved_frames' =
              IF write_raises THEN saved_frames
              ELSE Append(saved_frames, capture_threads[th].current_time)
    /\ UNCHANGED <<capturer, clock>>
    /\ UNCHANGED <<detector, detector_log, probe, analyzer, analyzer_log>>
    /\ UNCHANGED <<runVars, temp_audio, extract_log, serviceVars>>

\* capture_screenshot called directly, with the throttle argument the
\* caller chooses
CaptureScreenshot ==
    /\ \E th \in 1..MaxThreads, throttle \in BOOLEAN :
         /\ capture_threads[th].pc = "idle"
         /\ \A other \in 1..(th - 1) : capture_threads[other].pc # "idle"
         /\ capture_threads' = [capture_threads EXCEPT ![th].pc = "check",
                                                       ![th].throttle = throttle]
    /\ UNCHANGED <<capturer, saved_frames, clock>>
    /\ UNCHANGED <<detector, detector_log, probe, analyzer, analyzer_log>>
    /\ UNCHANGED <<runVars, temp_audio, extract_log, serviceVars>>

\* a second passes
ClockTick ==
    /\ clock < StartTime + MaxTicks
    /\ clock' = clock + 1
    /\ UNCHANGED <<capturer, capture_threads, saved_frames>>
    /\ UNCHANGED <<detector, detector_log, probe, analyzer, analyzer_log>>
    /\ UNCHANGED <<runVars, temp_audio, extract_log, serviceVars>>

InitScreenshotCapturer ==
    /\ InitCommon
    /\ pc = "new"
    /\ InitTempAudio
    /\ InitDetector(<<>>)
    /\ probe = NoProbe
    /\ InitCapturer
    /\ InitAnalyzer
    /\ NoServices

NextCapturer ==
    \/ CaptureAsync
    \/ ThreadCheck
    \/ ThreadSet
    \/ ThreadSave
    \/ ClockTick

SpecCapturer == InitScreenshotCapturer /\ [][NextCapturer]_vars

\* the capturer used through capture_async and through direct
\* capture_screenshot calls, throttled or not
SpecThrottle ==
    InitScreenshotCapturer /\ [][NextCapturer \/ CaptureScreenshot]_vars

(***************************************************************************)
(* VisionAnalyzer (vision_analyzer.py).                                    *)
(***************************************************************************)
\* what a call of analyze_image meets: the image file exists or not, and
\* Image.open or the model call raises or the model answers
AnalysisAnswers ==
    { [exists |-> x, raises |-> r] : x \in BOOLEAN, r \in BOOLEAN }

ImagePaths == {"shot1.jpg", "shot2.jpg"}

Prompts == {None, "context prompt"}

\* analyze_image: the analyzer afterwards and the value returned
analyze_image(z, image_path, prompt, a) ==
    IF ~a.exists \/ a.raises THEN [analyzer |-> z, result |-> None]
    ELSE [analyzer |->
              [z EXCEPT !.analysis_history =
                  Append(@, [image_path |-> image_path,
                             prompt |-> IF prompt = None THEN "default prompt"
                                        ELSE prompt,
                             analysis |-> "analysis"])],
          result |-> "analysis"]

AnalyzeImage ==
    /\ analyzer_log.calls < MaxAnalyses
    /\ \E image_path \in ImagePaths, prompt \in Prompts, a \in AnalysisAnswers :
         LET r == analyze_image(analyzer, image_path, prompt, a)
         IN /\ analyzer' = r.analyzer
            /\ analyzer_log' = [calls |-> analyzer_log.calls + 1,
                                result |-> r.result]
    /\ UNCHANGED <<detector, detector_log, probe, capturer, capture_threads,
                   saved_frames, clock>>
    /\ UNCHANGED <<runVars, temp_audio, extract_log, serviceVars>>

InitVisionAnalyzer ==
    /\ InitCommon
    /\ pc = "new"
    /\ InitTempAudio
    /\ InitDetector(<<>>)
    /\ probe = NoProbe
    /\ InitCapturer
    /\ InitAnalyzer
    /\ NoServices

NextAnalyzer == AnalyzeImage

SpecAnalyzer == InitVisionAnalyzer /\ [][NextAnalyzer]_vars

(***************************************************************************)
(* SpecTranscriber: a LiveTranscriber, with or without a Deepgram key and  *)
(* with or without the Deepgram SDK, transcribes audio files.              *)
(***************************************************************************)
\* what Deepgram can do with one request: return a transcript ("a" or the
\* empty one), return a response without results, answer with an error
\* status, raise inside the request, or (SDK mode) fail to run the event loop
DeepgramAnswers == {"a", "", "no_results", "error_status", "raises", "loop_raises"}

\* what Google can do with one request: the transcript "b", or one of the
\* errors _transcribe_with_google catches
GoogleAnswers == {"b", "UnknownValueError", "RequestError", "raises"}

\* _transcribe_with_google
transcribe_with_google(g) == IF g = "b" THEN g ELSE None

\* _transcribe_with_deepgram_http: the transcript on status 200 ('' when the
\* response has no results), '' on any other status and on any exception
transcribe_with_deepgram_http(dg) ==
    CASE dg = "a" -> dg
      [] dg = "" -> ""
      [] dg = "no_results" -> ""
      [] dg = "error_status" -> ""
      [] OTHER -> ""

\* _async_deepgram_transcribe: the transcript, None when the response has no
\* results, None on any exception (the SDK raises on an error status)
async_deepgram_transcribe(dg) ==
    CASE dg = "a" -> dg
      [] dg = "" -> ""
      [] OTHER -> None

\* _transcribe_with_deepgram: the SDK path or the HTTP path; Google only
\* when an exception reaches this method, which the two paths let happen
\* only for the event loop of the SDK path
transcribe_with_deepgram(z, dg, g) ==
    IF z.sdk_available
    THEN IF dg = "loop_raises"
         THEN [services |-> <<"deepgram", "google">>,
               result |-> transcribe_with_google(g)]
         ELSE [services |-> <<"deepgram">>,
               result |-> async_deepgram_transcribe(dg)]
    ELSE [services |-> <<"deepgram">>,
          result |-> transcribe_with_deepgram_http(dg)]

\* _transcribe_audio_file
transcribe_audio_file(z, dg, g) ==
    IF z.use_deepgram
    THEN transcribe_with_deepgram(z, dg, g)
    ELSE [services |-> <<"google">>, result |-> transcribe_with_google(g)]

TranscribeAudioFile ==
    /\ transcribe_log.calls < MaxTranscriptions
    /\ \E audio_file \in {"chunk1.mp3", "chunk2.mp3"}, dg \in DeepgramAnswers, g \in GoogleAnswers :
         LET r == transcribe_audio_file(transcriber, dg, g)
         IN /\ dg = "loop_raises" => transcriber.sdk_available
            /\ transcribe_log' =
                 [calls |-> transcribe_log.calls + 1,
                  audio_file |-> audio_file,
                  services |-> r.services,
                  deepgram |-> IF InSeq("deepgram", r.services) THEN dg ELSE None,
                  google |-> IF InSeq("google", r.services) THEN g ELSE None,
                  result |-> r.result]
    /\ UNCHANGED <<transcriber, api_handler, api_log>>
    /\ UNCHANGED <<runVars, temp_audio, extract_log, collaboratorVars>>

InitLiveTranscriber ==
    /\ InitCommon
    /\ pc = "new"
    /\ InitTempAudio
    /\ InitDetector(<<>>)
    /\ probe = NoProbe
    /\ InitCapturer
    /\ InitAnalyzer
    /\ \E api_key \in BOOLEAN, sdk_available \in BOOLEAN :
         transcriber = NewTranscriber(api_key, sdk_available)
    /\ transcribe_log = NoTranscription
    /\ api_handler = None
    /\ api_log = NoRequest

SpecTranscriber == InitLiveTranscriber /\ [][TranscribeAudioFile]_vars

(***************************************************************************)
(* SpecApiHandler: a YouTubeAPIHandler, with or without a Data API         *)
(* service, answers get_video_info calls.                                  *)
(***************************************************************************)
\* the order in which get_video_info tries its strategies, by the name each
\* one leaves in strategy_used
StrategyOrder ==
    <<"youtube_data_api", "yt_dlp_enhanced", "streamlink", "alternative_extractor">>

\* a strategy that returned None or raised
NoInfo == [ok |-> FALSE, fields |-> [status |-> "unknown"]]

\* what the outside can answer to one get_video_info call: the Data API
\* (raises, no item, a video, a live video), yt-dlp (how many of its three
\* configurations fail, and the info the next one extracts), the streamlink
\* and youtube-dl subprocesses (raise, exit code not 0, JSON)
InfoAnswers ==
    [ api : {"raises", "no_items", "video", "live_video"},
      failing_configs : 0..3,
      audio : BOOLEAN,
      streamlink : {"raises", "nonzero", "json"},
      youtube_dl : {"raises", "nonzero", "json"},
      title : {"", "title"},
      is_live : BOOLEAN ]

\* "https://www.youtube.com/watch?v=" + video_id
WatchUrl(video_id) == <<"watch", video_id>>

\* _get_info_via_api
get_info_via_api(video_id, a) ==
    CASE a.api = "video" ->
           [ok |-> TRUE,
            fields |-> [title |-> a.title, is_live |-> FALSE,
                        status |-> "available"]]
      [] a.api = "live_video" ->
           [ok |-> TRUE,
            fields |-> [title |-> a.title, is_live |-> TRUE,
                        status |-> "available",
                        stream_url |-> WatchUrl(video_id)]]
      [] OTHER -> NoInfo

\* _get_info_via_ytdlp: the first configuration that extracts gives the info
get_info_via_ytdlp(video_id, a) ==
    IF a.failing_configs < 3
    THEN [ok |-> TRUE,
          fields |-> IF a.audio
                     THEN [title |-> a.title, is_live |-> a.is_live,
                           status |-> "available", audio_url |-> "audio_url"]
                     ELSE [title |-> a.title, is_live |-> a.is_live,
                           status |-> "available"]]
    ELSE NoInfo

\* _get_info_via_streamlink
get_info_via_streamlink(video_id, a) ==
    IF a.streamlink = "json"
    THEN [ok |-> TRUE,
          fields |-> [title |-> a.title, is_live |-> TRUE,
                      status |-> "available", stream_url |-> WatchUrl(video_id)]]
    ELSE NoInfo

\* _get_info_via_alternatives
get_info_via_alternatives(video_id, a) ==
    IF a.youtube_dl = "json"
    THEN [ok |-> TRUE,
          fields |-> [title |-> a.title, is_live |-> a.is_live,
                      status |-> "available"]]
    ELSE NoInfo

\* dict.update
DictUpdate(d, e) ==
    [k \in DOMAIN d \cup DOMAIN e |-> IF k \in DOMAIN e THEN e[k] ELSE d[k]]

\* the info dict get_video_info starts from
BlankInfo(video_id) ==
    [id |-> video_id, is_live |-> FALSE, title |-> "", status |-> "unknown",
     stream_url |-> None, audio_url |-> None, strategy_used |-> None]

\* one strategy of get_video_info, by its name
TryStrategy(name, video_id, a) ==
    CASE name = "youtube_data_api" -> get_info_via_api(video_id, a)
      [] name = "yt_dlp_enhanced" -> get_info_via_ytdlp(video_id, a)
      [] name = "streamlink" -> get_info_via_streamlink(video_id, a)
      [] OTHER -> get_info_via_alternatives(video_id, a)

\* the strategies a handler can try: the Data API only with a service
Tried(h) ==
    IF h.youtube_service THEN StrategyOrder ELSE SubSeq(StrategyOrder, 2, 4)

\* a get_video_info that tries every strategy and keeps the last info found
get_video_info_LastWins(h, video_id, a) ==
    LET order == Tried(h)
        got == [i \in 1..Len(order) |-> TryStrategy(order[i], video_id, a)]
        wins == { i \in 1..Len(order) : got[i].ok }
        all == [i \in 1..Len(order) |-> [strategy |-> order[i], ok |-> got[i].ok]]
    IN IF wins = {}
       THEN [invoked |-> all,
             info |-> [BlankInfo(video_id) EXCEPT !.strategy_used = "none_successful"]]
       ELSE LET w == CHOOSE i \in wins : \A j \in wins : j <= i
            IN [invoked |-> all,
                info |-> [DictUpdate(BlankInfo(video_id), got[w].fields)
                             EXCEPT !.strategy_used = order[w]]]

\* get_video_info: each strategy in turn, inside its own try; the first one
\* that returns info fills the dict and the method returns
get_video_info(h, video_id, a) ==
    LET order == Tried(h)
        got == [i \in 1..Len(order) |-> TryStrategy(order[i], video_id, a)]
        wins == { i \in 1..Len(order) : got[i].ok }
        all == [i \in 1..Len(order) |-> [strategy |-> order[i], ok |-> got[i].ok]]
    IN IF wins = {}
       THEN [invoked |-> all,
             info |-> [BlankInfo(video_id) EXCEPT !.strategy_used = "none_successful"]]
       ELSE LET w == CHOOSE i \in wins : \A j \in wins : i <= j
            IN [invoked |-> SubSeq(all, 1, w),
                info |-> [DictUpdate(BlankInfo(video_id), got[w].fields)
                             EXCEPT !.strategy_used = order[w]]]

\* the yt-dlp configurations one call went through
ConfigsTried(r, a) ==
    IF \E i \in 1..Len(r.invoked) : r.invoked[i].strategy = "yt_dlp_enhanced"
    THEN Min(a.failing_configs + 1, 3)
    ELSE 0

GetVideoInfo ==
    /\ api_log.calls < MaxRequests
    /\ \E video_id \in {"vid1", "vid2"}, a \in InfoAnswers :
         LET r == get_video_info(api_handler, video_id, a)
         IN api_log' = [calls |-> api_log.calls + 1, invoked |-> r.invoked,
                        configs |-> ConfigsTried(r, a), info |-> r.info]
    /\ UNCHANGED <<transcriber, transcribe_log, api_handler>>
    /\ UNCHANGED <<runVars, temp_audio, extract_log, collaboratorVars>>

InitYouTubeAPIHandler ==
    /\ InitCommon
    /\ pc = "new"
    /\ InitTempAudio
    /\ InitDetector(<<>>)
    /\ probe = NoProbe
    /\ InitCapturer
    /\ InitAnalyzer
    /\ transcriber = None
    /\ transcribe_log = NoTranscription
    /\ \E api_key \in BOOLEAN, build_raises \in BOOLEAN :
         api_handler = NewApiHandler(api_key, build_raises)
    /\ api_log = NoRequest

SpecApiHandler == InitYouTubeAPIHandler /\ [][GetVideoInfo]_vars

(***************************************************************************)
(* Properties of the acquisition chain (SpecStream, Spec).                 *)
(***************************************************************************)
Running == pc \in {"loop", "tick", "extract", "transcribe", "save", "sleep"}

\* what setup() pins: the strategy with its stream URL and quality
Pinned ==
    <<stream.successful_strategy, stream.stream_url, stream.stream_quality>>

\* C1: setup() invokes the strategies in the order yt-dlp, streamlink,
\* direct extraction; nothing is invoked after a strategy succeeded, and the
\* strategy recorded in successful_strategy is the one that succeeded.
C1_FirstSuccessWins ==
    /\ Len(invoked) <= Len(Strategies)
    /\ \A i \in 1..Len(invoked) :
         /\ invoked[i].name = Strategies[i]
         /\ i < Len(invoked) => ~invoked[i].ok
    /\ setup_result = "True" =>
         /\ invoked # <<>>
         /\ invoked[Len(invoked)].ok
         /\ stream.successful_strategy = invoked[Len(invoked)].name
    /\ stream.successful_strategy # None => setup_result = "True"

\* strategy 1 failed, strategy 2 succeeded: bound to 2, 3 never invoked
C1_Witness ==
    /\ pc = "setup_done"
    /\ setup_result = "True"
    /\ invoked = <<[name |-> "yt-dlp", ok |-> FALSE],
                   [name |-> "streamlink", ok |-> TRUE]>>
    /\ stream.successful_strategy = "streamlink"

\* C2: a failing strategy never ends setup() by itself: the chain goes on to
\* the next strategy; setup() reports failure only after all three failed,
\* and start() then returns False with no extraction cycle ever begun.
C2_FailureNeverPropagates ==
    /\ \A i \in 1..Len(invoked) :
         (~invoked[i].ok /\ i < Len(Strategies)) =>
             \/ i < Len(invoked)
             \/ /\ i = 1
                /\ pc = "setup_streamlink"
             \/ /\ i = 2
                /\ pc = "setup_direct"
    /\ setup_result = "False" =>
         /\ Len(invoked) = Len(Strategies)
         /\ \A i \in 1..Len(invoked) : ~invoked[i].ok
         /\ pc \in {"setup_done", "returned"}
         /\ pc = "returned" => start_result = "False"
         /\ last_call.op # "extract_audio"
         /\ in_flight = 0
         /\ transcript_counter = 0

C2_Witness ==
    /\ pc = "returned"
    /\ setup_result = "False"
    /\ start_result = "False"
    /\ Len(invoked) = Len(Strategies)

\* C3: the run's setup fails (start() returns False) only when every
\* acquisition strategy failed; when a strategy resolved the source, setup
\* succeeds.
C3_SetupFailsOnlyWhenAllFail ==
    start_result = "False" => setup_result = "False"

\* C4: in every state after setup() returned True, extract_audio dispatches
\* to the extraction method of the pinned strategy.
C4_ExtractAlwaysDispatches ==
    setup_result = "True" =>
        extract_audio(stream, "audio.mp3").method = stream.successful_strategy

\* C5: once setup() has returned True, no step changes the pinned strategy,
\* its stream URL or its quality.
C5_PinnedNeverChanges ==
    [][setup_result = "True" => Pinned' = Pinned]_vars

\* extraction failed in consecutive calls and the stream was released
C5_Witness ==
    /\ setup_result = "True"
    /\ stream.successful_strategy = "streamlink"
    /\ failures >= 2
    /\ last_call.op = "release"
    /\ releases[1] = 1

\* C6: release() after release() leaves the object and the handles exactly
\* as the first call left them, and no capture handle is released twice.
C6_ReleaseIdempotent ==
    LET r1 == release(stream, releases)
        r2 == release(r1.stream, r1.releases)
    IN /\ r2 = r1
       /\ \A h \in DOMAIN releases : releases[h] <= 1 /\ r1.releases[h] <= 1

C6_Witness ==
    /\ setup_result = "True"
    /\ last_call.op = "release"
    /\ stream.cap = NoCap
    /\ releases[1] = 1

(***************************************************************************)
(* Properties of the timed loop and of shutdown (Spec, FairSpec).          *)
(***************************************************************************)
\* C7: at most one cycle is in flight, and it is the one the main thread is
\* executing.
C7_SingleCycleInFlight ==
    /\ in_flight <= 1
    /\ in_flight = 1 <=> pc \in {"extract", "transcribe", "save"}

\* a cycle that overran the interval, with the stop handled during it
C7_Witness ==
    /\ in_flight = 1
    /\ pc = "save"
    /\ stop_event
    /\ now - current_time >= IntervalSeconds

\* C8: once stop() has run, final_transcript.txt holds every chunk that was
\* ever recorded.
C8_FinalTranscriptComplete ==
    (stop_bodies > 0 /\ full_transcript # <<>>) =>
        final_transcript_file =
            [exists |-> TRUE, segments |-> transcript_counter,
             text |-> full_transcript]

\* C9: once stop() has completed, no cycle begins and extract_audio is not
\* called.
C9_StoppedIsTerminal ==
    [][(stop_bodies > 0 /\ handler = <<>>) =>
          /\ in_flight' <= in_flight
          /\ ~(pc = "extract" /\ pc' # "extract")]_vars

ExtractionFailed == last_call.op = "extract_audio" /\ last_call.result = None

\* the step that ends a cycle at its failed extraction
FailedCycleEnds == pc = "extract" /\ pc' = "sleep"

\* the step that ends a cycle whose extraction succeeded
CycleCompletes == pc = "save" /\ pc' = "sleep"

\* what a cycle may record: the counter, the running transcript, the files
Recorded ==
    <<transcript_counter, full_transcript, segment_files, full_transcript_file>>

\* C11: after a cycle ended with a failed extraction, the next cycle begins
\* only a full interval after the tick of the failed one, never on the next
\* poll.
C11_NoRetryBeforeNextTick ==
    [][(pc = "tick" /\ pc' = "extract" /\ ExtractionFailed) =>
          now - current_time >= IntervalSeconds]_vars

\* C12: a cycle whose extraction fails ends at once and changes neither
\* transcript_counter nor full_transcript nor any transcript file; these
\* change only at the save of a cycle whose extraction returned audio.
C12_FailedCycleRecordsNothing ==
    /\ [][FailedCycleEnds =>
            /\ last_call'.op = "extract_audio" /\ last_call'.result = None
            /\ in_flight' = in_flight - 1
            /\ Recorded' = Recorded]_vars
    /\ [][(pc = "extract" /\ pc' # "extract") =>
            /\ last_call'.op = "extract_audio"
            /\ (last_call'.result = None <=> pc' = "sleep")
            /\ (last_call'.result # None <=> pc' = "transcribe")]_vars
    /\ [][(pc' = "save" /\ pc # "save") => pc = "transcribe"]_vars
    /\ [][(pc' = "transcribe" /\ pc # "transcribe") => pc = "extract"]_vars
    /\ [][Recorded' # Recorded => pc = "save"]_vars

\* a failed cycle ended after a first cycle had recorded chunk 1
C12_Witness ==
    /\ pc = "sleep"
    /\ ExtractionFailed
    /\ transcript_counter = 1
    /\ full_transcript # <<>>
    /\ segment_files = {1}

\* C13: the segment records that exist are exactly those numbered
\* 1..transcript_counter, and transcript_counter is the number of chunks
\* recorded.
C13_SegmentNumbersConsecutive ==
    /\ segment_files = 1..transcript_counter
    /\ transcript_counter = Len(full_transcript)

\* C14: every cycle whose extraction succeeded records a chunk: it writes
\* one segment record and rewrites the cumulative transcript.
C14_EveryCycleRecords ==
    [][CycleCompletes =>
          /\ transcript_counter' = transcript_counter + 1
          /\ segment_files' # segment_files
          /\ full_transcript_file' # full_transcript_file]_vars

\* p is a prefix of q
IsPrefix(p, q) == Len(p) <= Len(q) /\ p = SubSeq(q, 1, Len(p))

\* C15: in every state the cumulative transcript file, once it exists, is a
\* complete snapshot: its header and the transcript up to a recorded chunk.
C15_SnapshotAlwaysValid ==
    full_transcript_file.exists =>
        /\ full_transcript_file.segments >= 1
        /\ full_transcript_file.text # <<>>
        /\ IsPrefix(full_transcript_file.text, full_transcript)

\* C16: whatever happens to the writes of _save_transcript_chunk, the chunk
\* is the last entry of the in-memory running transcript afterwards.
C16_FailedWriteKeepsChunk ==
    [][(CycleCompletes /\ transcript_chunk # None) =>
          full_transcript' = Append(full_transcript, transcript_chunk)]_vars

\* C17: _save_final_transcript applied twice gives the file that applying it
\* once gives; a run of stop() after the first one leaves the summary as it
\* was; and no run of stop() changes transcript_counter or full_transcript.
C17_FinalSaveIdempotent ==
    /\ [](LET once == final_transcript(transcript_counter, full_transcript,
                                       final_transcript_file)
              twice == final_transcript(transcript_counter, full_transcript,
                                        once)
          IN twice = once)
    /\ [][(stop_bodies >= 1 /\ stop_bodies' = stop_bodies + 1) =>
             final_transcript_file' = final_transcript_file]_vars
    /\ [][stop_bodies' # stop_bodies =>
             /\ transcript_counter' = transcript_counter
             /\ full_transcript' = full_transcript]_vars

\* stop() ran twice (a signal inside the handler) after a chunk was recorded
C17_Witness ==
    /\ stop_bodies = 2
    /\ full_transcript # <<>>
    /\ final_transcript_file.exists
    /\ final_transcript_file.text = full_transcript

\* C18: once stop() has run, final_transcript.txt exists, also when no chunk
\* was recorded.
C18_SummaryAlwaysWritten ==
    stop_bodies > 0 => final_transcript_file.exists

\* C19: the loop is left only through its condition with stop_event set, and
\* stop_event is set only after a signal; start() has returned either False
\* with no cycle ever begun, or True after a signal; and while the run is not
\* stopped every cycle, whatever failed in it, is followed by a tick test.
C19_OnlySetupOrSignalTerminates ==
    /\ [][(Running /\ ~Running') =>
             (pc = "loop" /\ pc' = "finally" /\ stop_event)]_vars
    /\ [](stop_event => signals >= 1)
    /\ [](pc = "returned" =>
            \/ /\ start_result = "False"
               /\ transcript_counter = 0
               /\ last_call.op # "extract_audio"
               /\ (stop_event => signals >= 1)
            \/ /\ start_result = "True"
               /\ stop_event
               /\ signals >= 1)
    /\ (pc \in {"extract", "transcribe", "save", "sleep"}) ~>
           (pc = "tick" \/ stop_event)

\* a tick test reached after a cycle whose write failed and a cycle whose
\* extraction failed, the run not stopped
C19_Witness ==
    /\ pc = "tick"
    /\ ~stop_event
    /\ ExtractionFailed
    /\ transcript_counter = 1
    /\ segment_files = {}

\* C20: once stop() has run, the terminal shows the summary message with the
\* total of segments, also when no chunk was recorded.
C20_SummaryAlwaysPrinted ==
    stop_bodies > 0 => console # <<>>

(***************************************************************************)
(* Properties of annotation: the detector, the capturer, the analyzer      *)
(* (Spec, SpecDetector, SpecMatch, SpecCapturer, SpecAnalyzer).            *)
(***************************************************************************)
\* C21: every cycle that records a non-empty chunk passes it to
\* PhraseDetector.process_transcript.
C21_ChunkFedToDetector ==
    [][(CycleCompletes /\ transcript_chunk # None) =>
          detector_log'.calls = detector_log.calls + 1]_vars

\* C22: no phrase is returned by process_transcript twice, whatever calls of
\* add_target_phrase and remove_target_phrase come in between, and every
\* phrase returned is in detected_phrases.
C22_FiresAtMostOnce ==
    /\ Distinct(detector_log.fired)
    /\ Distinct(detector.detected_phrases)
    /\ \A i \in 1..Len(detector_log.fired) :
         InSeq(detector_log.fired[i], detector.detected_phrases)

\* the text "a b" was passed twice and "a b" fired once
C22_Witness ==
    /\ Len(detector_log.passed) >= 2
    /\ detector_log.passed[1] = <<"a", " ", "b">>
    /\ detector_log.passed[2] = <<"a", " ", "b">>
    /\ detector_log.fired = << <<"a", " ", "b">> >>

\* the phrase of the probe has at most two words
ShortPhrase == Len(Split(Lower(probe.phrase))) <= 2

\* every word of the probe's phrase is in the word set of its window
AllWordsPresent ==
    \A k \in 1..Len(Split(Lower(probe.phrase))) :
        Split(Lower(probe.phrase))[k] \in WordSet(Lower(probe.text))

\* the probe's phrase is a substring of its window
IsSubstring == Contains(Lower(probe.text), Lower(probe.phrase))

\* the words of the probe's phrase that are in the word set of its window,
\* counted with their repetitions
MatchedWords ==
    Cardinality({ k \in 1..Len(Split(Lower(probe.phrase))) :
                    Split(Lower(probe.phrase))[k] \in WordSet(Lower(probe.text)) })

\* C23 as stated: a phrase of at most two words matches exactly when all its
\* words are in the window's word set.
C23_ShortPhraseIffAllWords ==
    (probe.result # None /\ ShortPhrase) =>
        (probe.result = "True" <=> AllWordsPresent)

\* C23, amended: a phrase of at most two words matches exactly when it is a
\* substring of the window or all its words are in the window's word set; so
\* it matches whenever all its words are present, in any order.
C23_ShortPhraseSubstringOrAllWords ==
    (probe.result # None /\ ShortPhrase) =>
        /\ probe.result = "True" <=> (IsSubstring \/ AllWordsPresent)
        /\ AllWordsPresent => probe.result = "True"

\* window "a b c", phrase "b a": the words are present in another order
C23_Witness ==
    /\ probe.result = "True"
    /\ probe.text = <<"a", " ", "b", " ", "c">>
    /\ probe.phrase = <<"b", " ", "a">>
    /\ ~IsSubstring

\* C24: _detect_phrase is the ordered rule set: substring; else all words
\* for at most two words; else at least 75 % of the words.
C24_DetectEqualsRuleSet ==
    probe.result # None =>
        (probe.result = "True" <=>
            \/ IsSubstring
            \/ ShortPhrase /\ AllWordsPresent
            \/ /\ ~ShortPhrase
               /\ 4 * MatchedWords >= 3 * Len(Split(Lower(probe.phrase))))

\* window "a b c", phrase "a b c d": 3 of 4 words, no substring
C24_Witness ==
    /\ probe.result = "True"
    /\ probe.text = <<"a", " ", "b", " ", "c">>
    /\ probe.phrase = <<"a", " ", "b", " ", "c", " ", "d">>
    /\ MatchedWords = 3
    /\ ~IsSubstring

\* the last n elements of q (all of q when it has fewer)
LastN(q, n) == SubSeq(q, Len(q) - Min(n, Len(q)) + 1, Len(q))

\* C25: the window never holds more than context_window chunks, and it holds
\* the latest of the chunks pushed into it, in order (the oldest are evicted).
C25_WindowBoundedFifo ==
    /\ Len(detector.transcript_history) <= detector.context_window
    /\ detector.transcript_history =
           LastN(detector_log.pushed, detector.context_window)

\* one chunk more than the window holds was pushed: the first is gone
C25_Witness ==
    /\ Len(detector_log.pushed) = ContextWindow + 1
    /\ detector_log.pushed[1] # detector_log.pushed[2]
    /\ detector.transcript_history = Tail(detector_log.pushed)

\* C26: the window holds the last context_window non-empty chunks that were
\* passed to process_transcript, in order.
C26_WindowHoldsLastNonEmpty ==
    detector.transcript_history =
        LastN(detector_log.passed, detector.context_window)

\* C27: no two captures that saved a frame are less than
\* min_capture_interval apart.
C27_CapturesSpacedApart ==
    \A i, j \in 1..Len(saved_frames) :
        i < j =>
            \/ saved_frames[j] - saved_frames[i] >= capturer.min_capture_interval
            \/ saved_frames[i] - saved_frames[j] >= capturer.min_capture_interval

\* C28: every call of analyze_image adds one entry to analysis_history, also
\* when the image is missing or the model call raises.
C28_EveryAnalysisRecorded ==
    [][analyzer_log'.calls = analyzer_log.calls + 1 =>
          Len(analyzer'.analysis_history) =
              Len(analyzer.analysis_history) + 1]_vars

\* C29: the file extract_audio returns was captured by that very call.
C29_ReturnedFileIsFresh ==
    extract_log.file # NoFileFound => extract_log.file = extract_log.calls

\* the format of that name
FormatNamed(name) == CHOOSE f \in Formats : f.name = name

\* C30: for every answer of yt-dlp about a live source, the strategy fails
\* when there is no format, and else selects an audio-only format when there
\* is one, else a format of the lowest height among those that have one, else
\* the first format.
C30_LiveFormatSelection ==
    \A a \in YtdlpAnswers :
        (~a.raises /\ a.is_live) =>
            LET r == setup_with_ytdlp(stream, a)
                formats == a.formats
                audio == { i \in 1..Len(formats) : IsAudioOnly(formats[i]) }
                video == { i \in 1..Len(formats) : HasHeight(formats[i]) }
                chosen == FormatNamed(r.stream.format_info)
            IN IF formats = <<>> THEN ~r.ok
               ELSE /\ r.ok
                    /\ InSeq(chosen, formats)
                    /\ r.stream.stream_url = chosen.url
                    /\ audio # {} => IsAudioOnly(chosen)
                    /\ (audio = {} /\ video # {}) =>
                         /\ HasHeight(chosen)
                         /\ \A i \in video : chosen.height <= formats[i].height
                    /\ (audio = {} /\ video = {}) => chosen = formats[1]

\* a live source resolved by yt-dlp to its lowest video format
C30_Witness ==
    /\ setup_result = "True"
    /\ stream.successful_strategy = "yt-dlp"
    /\ stream.is_live
    /\ stream.format_info = "video360"
    /\ stream.stream_url = "url_video360"

(***************************************************************************)
(* Properties of the tick, of the snapshot and of shutdown (Spec).         *)
(***************************************************************************)
\* the step that begins a cycle
CycleBegins == pc = "tick" /\ pc' = "extract"

\* a step of the main thread between two cycles: the loop test, the tick
\* that finds the interval not elapsed, the sleep
Polls ==
    /\ handler = <<>> /\ handler' = <<>>
    /\ pc \in {"loop", "tick", "sleep"}
    /\ pc' \in {"loop", "tick", "sleep", "finally"}

\* C31: a cycle begins only when at least IntervalSeconds have passed since
\* the start of the last cycle whose extraction succeeded (the time kept in
\* last_extraction_time: a completed cycle stores its own start, a failed
\* one stores nothing); the first tick after setup begins a cycle; a pass
\* that begins no cycle calls nothing and records nothing.
C31_CycleOnlyAfterInterval ==
    /\ [][CycleBegins =>
            /\ current_time' = now
            /\ now - last_extraction_time >= IntervalSeconds]_vars
    /\ [][(pc = "tick" /\ pc' # "tick" /\ last_extraction_time = 0) =>
            pc' = "extract"]_vars
    /\ [](pc \in {"extract", "transcribe", "save"} =>
            /\ current_time <= now
            /\ current_time - last_extraction_time >= IntervalSeconds)
    /\ [][CycleCompletes => last_extraction_time' = current_time]_vars
    /\ [][last_extraction_time' # last_extraction_time =>
            \/ CycleCompletes
            \/ pc = "setup_done" /\ last_extraction_time' = 0]_vars
    /\ [][Polls =>
            /\ last_call' = last_call
            /\ transcript_chunk' = transcript_chunk
            /\ Recorded' = Recorded]_vars
    /\ [][(pc = "tick" /\ pc' = "sleep") =>
            now - last_extraction_time < IntervalSeconds]_vars

\* a second cycle begun a full interval after the start of a recorded one
C31_Witness ==
    /\ pc = "extract"
    /\ transcript_counter = 1
    /\ last_extraction_time = StartTime
    /\ current_time = StartTime + IntervalSeconds

\* the step of a _save_transcript_chunk both of whose writes succeeded: the
\* segment record of the new number exists and the snapshot is not left empty
SaveWithoutWriteError ==
    /\ CycleCompletes
    /\ transcript_chunk # None
    /\ transcript_counter' \in segment_files'
    /\ full_transcript_file' # Truncated

\* C32: after a _save_transcript_chunk without a write error the snapshot
\* holds the running transcript with the new chunk at its end, one chunk for
\* each segment record written, and its segment count is transcript_counter;
\* the running transcript changes only by having one chunk appended.
C32_SnapshotHoldsRecordedChunks ==
    /\ [][SaveWithoutWriteError =>
            /\ full_transcript_file'.exists
            /\ full_transcript_file'.text = Append(full_transcript, transcript_chunk)
            /\ full_transcript_file'.text = full_transcript'
            /\ Len(full_transcript_file'.text) = Cardinality(segment_files')
            /\ full_transcript_file'.segments = transcript_counter']_vars
    /\ [][IsPrefix(full_transcript, full_transcript')]_vars
    /\ [][full_transcript' # full_transcript =>
            /\ pc = "save"
            /\ full_transcript' = Append(full_transcript, transcript_chunk)]_vars

\* two chunks recorded, the snapshot holding both in order
C32_Witness ==
    /\ pc = "sleep"
    /\ transcript_counter = 2
    /\ segment_files = {1, 2}
    /\ Len(full_transcript) = 2
    /\ full_transcript[1] # full_transcript[2]
    /\ full_transcript_file = [exists |-> TRUE, segments |-> 2, text |-> full_transcript]

(***************************************************************************)
(* Properties of the transcriber and of the API handler.                   *)
(***************************************************************************)
\* the latest Deepgram request failed: an error status or an exception
DeepgramFailed ==
    transcribe_log.deepgram \in {"error_status", "raises", "loop_raises"}

\* C33: with Deepgram configured, a call whose Deepgram request failed also
\* called Google, and returned what Google returned.
C33_DeepgramFailureFallsBack ==
    (transcriber.use_deepgram /\ transcribe_log.calls >= 1 /\ DeepgramFailed) =>
        /\ transcribe_log.services = <<"deepgram", "google">>
        /\ transcribe_log.result = transcribe_with_google(transcribe_log.google)

\* C34: a get_video_info call invokes the strategies in their order (the
\* Data API first, only on a handler with a service), stops at the first
\* one that yields info and names it in strategy_used with its fields in the
\* dict; when none yields, all were invoked and strategy_used is
\* 'none_successful'; every call returns a dict.
C34_FirstInfoWins ==
    api_log.calls >= 1 =>
        LET tried == api_log.invoked
            n == Len(tried)
            first == IF api_handler.youtube_service THEN 1 ELSE 2
        IN /\ n >= 1
           /\ n <= 5 - first
           /\ \A i \in 1..n : tried[i].strategy = StrategyOrder[first + i - 1]
           /\ \A i \in 1..(n - 1) : ~tried[i].ok
           /\ DOMAIN BlankInfo(api_log.info.id) \subseteq DOMAIN api_log.info
           /\ IF tried[n].ok
              THEN /\ api_log.info.strategy_used = tried[n].strategy
                   /\ api_log.info.status = "available"
              ELSE /\ n = 5 - first
                   /\ api_log.info =
                        [BlankInfo(api_log.info.id)
                            EXCEPT !.strategy_used = "none_successful"]
           /\ (api_log.configs > 0) <=>
                 (\E i \in 1..n : tried[i].strategy = "yt_dlp_enhanced")

\* streamlink answered after the Data API and all yt-dlp configurations
\* failed; the alternative extractor was not invoked
C34_Witness ==
    /\ api_handler.youtube_service
    /\ api_log.calls = 2
    /\ Len(api_log.invoked) = 3
    /\ api_log.configs = 3
    /\ api_log.info.strategy_used = "streamlink"
    /\ api_log.info.is_live

(***************************************************************************)
(* Properties of the handle's attributes, of stop(), of the throttle and   *)
(* of the detection window.                                                *)
(***************************************************************************)
\* the step in which a strategy of setup() ran and failed
StrategyFails ==
    /\ Len(invoked') = Len(invoked) + 1
    /\ ~invoked'[Len(invoked')].ok

\* C35: a strategy that fails leaves title, is_live, stream_url, format_info
\* and stream_quality as they were, and after a successful setup() the title
\* is the one the winning strategy read.
C35_FailedStrategyWritesNothing ==
    /\ [][StrategyFails =>
            /\ stream'.title = stream.title
            /\ stream'.is_live = stream.is_live
            /\ stream'.stream_url = stream.stream_url
            /\ stream'.format_info = stream.format_info
            /\ stream'.stream_quality = stream.stream_quality]_vars
    /\ [](setup_result = "True" =>
            stream.title =
               CASE stream.successful_strategy = "yt-dlp" -> "yt title"
                 [] stream.successful_strategy = "streamlink" -> "sl title"
                 [] OTHER -> "page title")

\* C36: the body of stop() (release the stream, write the final
\* transcript) runs at most once in a run, whoever calls stop().
C36_ShutdownBodyOnce == stop_bodies <= 1

\* C37: a request dropped by the throttle test leaves last_capture_time as
\* it was; a request is dropped exactly when it is throttled and less than
\* min_capture_interval has passed; a request that is not dropped assigns its
\* own time to last_capture_time, which a failed save does not undo; and
\* nothing else assigns last_capture_time.
C37_ThrottleFrameEffect ==
    /\ [][\A th \in 1..MaxThreads :
            (capture_threads[th].pc = "check" /\ capture_threads'[th].pc # "check") =>
               /\ capturer' = capturer
               /\ capture_threads'[th].pc \in {"done", "set"}
               /\ capture_threads'[th].pc = "done" <=>
                     /\ capture_threads[th].throttle
                     /\ clock - capturer.last_capture_time
                           < capturer.min_capture_interval]_vars
    /\ [][\A th \in 1..MaxThreads :
            (capture_threads[th].pc = "set" /\ capture_threads'[th].pc # "set") =>
               /\ capture_threads'[th].pc = "save"
               /\ capturer'.last_capture_time = capture_threads[th].current_time]_vars
    /\ [][\A th \in 1..MaxThreads :
            (capture_threads[th].pc = "save" /\ capture_threads'[th].pc # "save") =>
               /\ capture_threads'[th].pc = "done"
               /\ capturer' = capturer]_vars
    /\ [][capturer' # capturer =>
            \E th \in 1..MaxThreads :
               capture_threads[th].pc = "set" /\ capture_threads'[th].pc = "save"]_vars

\* the first request passed and its save failed; a throttled request one
\* second later was dropped and did not move last_capture_time
C37_Witness ==
    /\ saved_frames = <<>>
    /\ capturer.last_capture_time = StartTime
    /\ capture_threads[1].pc = "done"
    /\ capture_threads[1].current_time = StartTime
    /\ capture_threads[2] = [pc |-> "done", throttle |-> TRUE,
                             current_time |-> StartTime + 1, result |-> None]

\* C38: at every process_transcript call with a non-empty chunk, the phrases
\* that fire match the text of the last context_window non-empty chunks
\* passed so far, and every target phrase not yet detected that matches this
\* text fires.
C38_FiresOnLastNChunks ==
    [][(detector_log'.calls = detector_log.calls + 1
          /\ detector_log'.passed # detector_log.passed) =>
          LET text == Lower(Join(LastN(detector_log'.passed, detector.context_window)))
              new == SubSeq(detector_log'.fired, Len(detector_log.fired) + 1,
                            Len(detector_log'.fired))
          IN /\ \A i \in 1..Len(new) : detect_phrase(text, Lower(new[i]))
             /\ \A n \in 1..Len(detector.target_phrases) :
                   (/\ detect_phrase(text, Lower(detector.target_phrases[n]))
                    /\ ~InSeq(detector.target_phrases[n], detector.detected_phrases))
                   => InSeq(detector.target_phrases[n], new)]_vars

====
